---- MODULE Spec2Model ----
(***************************************************************************)
(* A model of the Furnished Finder scraper (furnished_finder_scraper.py,   *)
(* utils.py).                                                              *)
(*                                                                         *)
(*   Spec         one get_listing_urls call: the pagination loop, the     *)
(*                card loop, the deduplication set and the browser driver *)
(*   SpecDetail   the detail loop of __main__: one parse_listing_details  *)
(*                call per search result, and what __main__ does with it  *)
(*   SpecPanel    the scan of the pricing panel's text blocks             *)
(*   SpecMinStay  the parse of one "Minimum stay:" text                   *)
(*                                                                         *)
(* Python's Optional[T] is modelled as a sequence of length at most one:   *)
(* None is <<>> and a value v is <<v>>.  A text that the code inspects     *)
(* character by character is a sequence of one-character strings.          *)
(***************************************************************************)
EXTENDS Integers, Sequences, FiniteSets, TLC

VARIABLES
    \* ---- get_listing_urls ----
    pc,                         \* position in get_listing_urls
    driver,                     \* self.driver: "none" or "live"
    max_pages,                  \* the max_pages argument
    page,                       \* the loop variable of the pagination loop
    requested,                  \* the pages handed to driver.get, in order
    ncards,                     \* len(selenium_card_elements) of the current page
    ci,                         \* index of the card the card loop is at
    cur,                        \* the card element the card loop last read
    full_url,                   \* full_url of the current card
    unique_urls,                \* the deduplication set
    all_listings_from_search,   \* the summaries collected so far
    stop,                       \* why and where the pagination loop was left
    returned,                   \* the value get_listing_urls returned
    first,                      \* per URL, the first card that carried it
    \* ---- the scan of the pricing panel (parse_listing_details, lines 341-380) ----
    potential_info_divs,        \* the texts of the divs find_all returned, in order
    div_index,                  \* index of the div the loop is at
    panel_data,                 \* the listing_data fields the loop writes
    \* ---- the detail loop of __main__ (lines 619-630) and parse_listing_details ----
    dpc,                        \* position in the detail loop
    search_results_cards,       \* the URLs of the summaries the loop visits
    listing_index,              \* the visit the loop is at, counted from 1
    load,                       \* how the load of the current page went
    detail_page,                \* the page the browser was served
    failing,                    \* the procedures that raised during the visit
    full_listing_details,       \* what parse_listing_details returned
    saved,                      \* the writes: file name, visit, record's URL and id
    skipped,                    \* the URLs logged as failed
    \* ---- one call of a function of utils.py or feature_engineer.py ----
    call,                       \* "idle", "pending" or "done"
    argument,                   \* what the function is called with
    result                      \* what it returned

loopVars == <<pc, max_pages, page, requested, ncards, ci, cur, full_url,
              unique_urls, all_listings_from_search, stop, returned, first>>

searchVars == <<driver, loopVars>>

panelVars == <<potential_info_divs, div_index, panel_data>>

detailVars == <<dpc, search_results_cards, listing_index, load, detail_page, failing,
                full_listing_details, saved, skipped>>

callVars == <<call, argument, result>>

vars == <<searchVars, panelVars, detailVars, callVars>>

-----------------------------------------------------------------------------
(* Bounds *)

MaxPages == 3
MaxCards == 2
MaxDivs == 3
MaxText == 6
MaxFails == 1
MaxItems == 2
MaxPrice == 4
MaxTenure == 4
MaxMonths == 60
MaxFiles == 2

-----------------------------------------------------------------------------
(* Optional values and small helpers *)

None == <<>>
Some(x) == <<x>>

Range(s) == {s[i] : i \in 1..Len(s)}

IsPrefix(s, t) == Len(s) <= Len(t) /\ SubSeq(t, 1, Len(s)) = s

-----------------------------------------------------------------------------
(* utils.clean_price *)

Digits == {"0", "1", "2", "3", "4", "5", "6", "7", "8", "9"}

DigitVal(c) ==
    CASE c = "0" -> 0 [] c = "1" -> 1 [] c = "2" -> 2 [] c = "3" -> 3 [] c = "4" -> 4
      [] c = "5" -> 5 [] c = "6" -> 6 [] c = "7" -> 7 [] c = "8" -> 8 [] c = "9" -> 9

\* The character class [$,/mo/month] of the substitution, under re.IGNORECASE.
PriceNoise == {"$", ",", "/", "m", "o", "n", "t", "h", "M", "O", "N", "T", "H"}

\* str.strip() and float()'s own trimming remove these.
Whitespace == {" "}

RECURSIVE RemoveChars(_, _)
RemoveChars(s, cs) ==
    IF s = <<>> THEN <<>>
    ELSE IF Head(s) \in cs THEN RemoveChars(Tail(s), cs)
    ELSE <<Head(s)>> \o RemoveChars(Tail(s), cs)

RECURSIVE LStrip(_)
LStrip(s) == IF s # <<>> /\ Head(s) \in Whitespace THEN LStrip(Tail(s)) ELSE s

RECURSIVE RStrip(_)
RStrip(s) ==
    IF s # <<>> /\ s[Len(s)] \in Whitespace THEN RStrip(SubSeq(s, 1, Len(s) - 1)) ELSE s

Strip(s) == RStrip(LStrip(s))

RECURSIVE DigitsToInt(_)
DigitsToInt(s) ==
    IF s = <<>> THEN 0 ELSE 10 * DigitsToInt(SubSeq(s, 1, Len(s) - 1)) + DigitVal(s[Len(s)])

RECURSIVE NumDigits(_)
\* The number of decimal digits of a natural number.
NumDigits(m) == IF m < 10 THEN 1 ELSE 1 + NumDigits(m \div 10)

RECURSIVE Normalize(_)
\* A decimal <<m, k>> stands for m / 10^k (k may be negative).  Equal floats are
\* equal values: trailing zeros of the fraction are dropped (1250.0 = 1250.00), an
\* integer of up to 9 digits is written out (1e3 = 1000), a longer one is kept
\* without its trailing zeros.
Normalize(d) ==
    IF d[1] = 0 THEN <<0, 0>>
    ELSE IF d[2] > 0 /\ d[1] % 10 = 0 THEN Normalize(<<d[1] \div 10, d[2] - 1>>)
    ELSE IF d[2] < 0 /\ NumDigits(d[1]) - d[2] <= 9 THEN Normalize(<<d[1] * 10, d[2] + 1>>)
    ELSE IF d[2] < 0 /\ d[1] % 10 = 0 THEN Normalize(<<d[1] \div 10, d[2] - 1>>)
    ELSE d

\* The float inf.
Infinity == <<1, 0, 0>>

\* The first two digits of a positive number (of a one-digit number, it and a 0).
LeadingTwo(m) ==
    IF m < 10 THEN m * 10
    ELSE LET RECURSIVE Cut(_)
             Cut(x) == IF x < 100 THEN x ELSE Cut(x \div 10)
         IN  Cut(m)

\* Whether m / 10^k is beyond the largest double, 1.797...e308.
Overflows(d) ==
    /\ d[1] > 0
    /\ LET mag == NumDigits(d[1]) - d[2]
       IN  mag > 309 \/ (mag = 309 /\ LeadingTwo(d[1]) >= 18)

RECURSIVE DropLastZeros(_)
\* A run of digits without its trailing zeros.
DropLastZeros(s) ==
    IF s # <<>> /\ s[Len(s)] = "0" THEN DropLastZeros(SubSeq(s, 1, Len(s) - 1)) ELSE s

\* float(text) for a text of digits with at most one decimal point and an optional
\* exponent (e or E, an optional sign, digits): the value it denotes, or None where
\* float raises ValueError.  (No text of the model has a leading sign, an
\* underscore, or a value small enough to underflow.)
ParseFloat(s) ==
    LET es == {i \in 1..Len(s) : s[i] \in {"e", "E"}}
        cut == IF es = {} THEN Len(s) + 1 ELSE CHOOSE i \in es : TRUE
        mant == SubSeq(s, 1, cut - 1)
        expo == SubSeq(s, cut + 1, Len(s))
        signed == expo # <<>> /\ expo[1] \in {"+", "-"}
        edigs == IF signed THEN Tail(expo) ELSE expo
        dots == {i \in 1..Len(mant) : mant[i] = "."}
        digs == {i \in 1..Len(mant) : mant[i] \in Digits}
    IN  IF \/ Cardinality(es) > 1
           \/ digs = {} \/ Cardinality(dots) > 1 \/ digs \cup dots # 1..Len(mant)
           \/ (es # {} /\ (edigs = <<>> \/ \E i \in 1..Len(edigs) : edigs[i] \notin Digits))
        THEN None
        ELSE LET k == IF dots = {} THEN 0
                      ELSE Len(mant) - (CHOOSE i \in dots : TRUE)
                 x == IF es = {} THEN 0
                      ELSE IF signed /\ expo[1] = "-" THEN 0 - DigitsToInt(edigs)
                      ELSE DigitsToInt(edigs)
                 all == RemoveChars(mant, {"."})
                 sig == DropLastZeros(all)
                 d == <<DigitsToInt(sig), k - x - (Len(all) - Len(sig))>>
             IN  IF Overflows(d) THEN Some(Infinity) ELSE Some(Normalize(d))

RECURSIVE IntDigits(_)
\* str(m) for a natural number.
IntDigits(m) ==
    LET last == CHOOSE c \in Digits : DigitVal(c) = m % 10
    IN  IF m < 10 THEN <<last>> ELSE Append(IntDigits(m \div 10), last)

Zeros(n) == [i \in 1..n |-> "0"]

RECURSIVE DropZeros(_)
DropZeros(m) == IF m > 0 /\ m % 10 = 0 THEN DropZeros(m \div 10) ELSE m

\* str(v) of a float: "inf"; else the shortest digits that give v back, in fixed
\* notation when the decimal exponent is in -4..15 and in scientific notation
\* otherwise.
FloatStr(v) ==
    IF v = Infinity THEN <<"i", "n", "f">>
    ELSE LET m == v[1]
             k == v[2]
             n == NumDigits(m)
             e10 == n - 1 - k
             sig == IntDigits(DropZeros(m))
             ex == IF e10 < 0 THEN 0 - e10 ELSE e10
         IN  IF m = 0 THEN <<"0", ".", "0">>
             ELSE IF e10 >= -4 /\ e10 < 16
             THEN IF k <= 0 THEN IntDigits(m) \o Zeros(0 - k) \o <<".", "0">>
                  ELSE IF n > k
                       THEN SubSeq(IntDigits(m), 1, n - k) \o <<".">>
                            \o SubSeq(IntDigits(m), n - k + 1, n)
                  ELSE <<"0", ".">> \o Zeros(k - n) \o IntDigits(m)
             ELSE <<Head(sig)>>
                  \o (IF Len(sig) > 1 THEN <<".">> \o Tail(sig) ELSE <<>>)
                  \o <<"e", IF e10 < 0 THEN "-" ELSE "+">>
                  \o (IF ex < 10 THEN <<"0">> ELSE <<>>) \o IntDigits(ex)

clean_price(price_str) ==
    IF price_str = None \/ price_str = Some(<<>>) THEN None
    ELSE ParseFloat(Strip(RemoveChars(price_str[1], PriceNoise)))


-----------------------------------------------------------------------------
(* Texts of the pricing panel.  A text is a sequence of symbols: a digit or a  *)
(* blank stands for itself, any other symbol for a whole word the code looks   *)
(* for as a unit.                                                              *)

\* str.lower(), and what re.IGNORECASE folds.
Lower(c) ==
    CASE c = "Utilities:" -> "utilities:"
      [] c = "Minimum stay:" -> "minimum stay:"
      [] c = "Month" -> "month"
      [] c = "Days" -> "days"
      [] c = "Included" -> "included"
      [] c = "Tenant pays" -> "tenant pays"
      [] c = "Available" -> "available"
      [] c = "Unavailable" -> "unavailable"
      [] c = "Booked" -> "booked"
      [] c = "Studio" -> "studio"
      [] c = "Apartment" -> "apartment"
      [] c = "Bedroom" -> "bedroom"
      [] c = "Bedrooms" -> "bedrooms"
      [] c = "Private bath" -> "private bath"
      [] c = "Kitchen" -> "kitchen"
      [] c = "Parking" -> "parking"
      [] c = "Thumb" -> "thumb"
      [] c = "Year" -> "year"
      [] c = "Years" -> "years"
      [] c = "Months" -> "months"
      [] c = "N/A" -> "n/a"
      [] OTHER -> c

LowerText(t) == [i \in 1..Len(t) |-> Lower(t[i])]

\* `pat in t` for strings: pat is a contiguous part of t.
Contains(t, pat) ==
    \E i \in 1..(Len(t) - Len(pat) + 1) : SubSeq(t, i, i + Len(pat) - 1) = pat

Min(S) == CHOOSE x \in S : \A y \in S : x <= y
Max(S) == CHOOSE x \in S : \A y \in S : x >= y

\* The places where a maximal run of digits starts, and where the run from i ends.
RunStarts(t) == {i \in 1..Len(t) : t[i] \in Digits /\ (i = 1 \/ t[i - 1] \notin Digits)}
RunEnd(t, i) == Max({j \in i..Len(t) : \A k \in i..j : t[k] \in Digits})

\* The first place at or after k that holds no whitespace (Len(t) + 1 if none).
SkipSpace(t, k) == Min({m \in k..(Len(t) + 1) : m = Len(t) + 1 \/ t[m] \notin Whitespace})

\* Whether the lower-case symbol begins with the word: a pattern matches at a word
\* that only starts with it ("bedroom" at "bedrooms").
Begins(sym, word) ==
    \/ sym = word
    \/ (word = "bedroom" /\ sym = "bedrooms")
    \/ (word = "month" /\ sym = "months")
    \/ (word = "year" /\ sym = "years")

\* re.search(r'(\d+)\s*<word>', t, re.IGNORECASE): group 1 of the leftmost match as
\* an int, or None.  The leftmost match starts at the first digit run that is
\* followed, after optional whitespace, by the word.
DigitsBefore(t, word) ==
    LET hits == {i \in RunStarts(t) :
                    LET m == SkipSpace(t, RunEnd(t, i) + 1)
                    IN  m <= Len(t) /\ Begins(Lower(t[m]), word)}
    IN  IF hits = {} THEN None
        ELSE Some(DigitsToInt(SubSeq(t, Min(hits), RunEnd(t, Min(hits)))))

\* re.search(r'(\d+)', t): the first run of digits as an int, or None.
FirstInt(t) ==
    IF RunStarts(t) = {} THEN None
    ELSE Some(DigitsToInt(SubSeq(t, Min(RunStarts(t)), RunEnd(t, Min(RunStarts(t))))))

-----------------------------------------------------------------------------
(* parse_listing_details: the scan of the pricing panel's info divs *)

\* config.UTILITIES_INCLUDED_KEYWORDS and config.UTILITIES_EXCLUDED_KEYWORDS (config.py
\* is not among the sources): two disjoint sets of lower-case keywords.
UTILITIES_INCLUDED_KEYWORDS == {"included"}
UTILITIES_EXCLUDED_KEYWORDS == {"tenant pays"}

\* Line 379: the words that make a div the availability status.
AvailabilityWords == {"Available", "Booked", "Unavailable"}

\* `keyword in text` for some keyword of the list.
AnyKeyword(keywords, t) == \E k \in keywords : Contains(t, <<k>>)

\* Lines 349, 366, 379: which branch of the if / elif chain a div's text takes.
DivKind(t) ==
    IF Contains(LowerText(t), <<"utilities:">>) THEN "utilities"
    ELSE IF Contains(LowerText(t), <<"minimum stay:">>) THEN "min_stay"
    ELSE IF AnyKeyword(AvailabilityWords, t) THEN "availability"
    ELSE "other"

\* Lines 350-363: the value a "Utilities:" div gives, or `old` when no keyword is in it.
UtilitiesOf(t, old) ==
    IF AnyKeyword(UTILITIES_INCLUDED_KEYWORDS, LowerText(t)) THEN Some(TRUE)
    ELSE IF AnyKeyword(UTILITIES_EXCLUDED_KEYWORDS, LowerText(t)) THEN Some(FALSE)
    ELSE old

\* (mutant) the "30 days" rule is tried before the "N month" rule.
MinStayOfDaysFirst(t, old) ==
    IF Contains(LowerText(t), <<"3", "0", " ", "days">>) THEN Some(1)
    ELSE IF DigitsBefore(t, "month") # None THEN DigitsBefore(t, "month")
    ELSE IF FirstInt(t) # None THEN FirstInt(t)
    ELSE old

\* Lines 367-376: the value a "Minimum stay:" div gives, or `old` when no rule applies.
MinStayOf(t, old) ==
    IF DigitsBefore(t, "month") # None THEN DigitsBefore(t, "month")
    ELSE IF Contains(LowerText(t), <<"3", "0", " ", "days">>) THEN Some(1)
    ELSE IF FirstInt(t) # None THEN FirstInt(t)
    ELSE old

\* (mutant) a utilities value already set is kept: the first matching div wins.
ScanDivFirstWins(data, t) ==
    CASE DivKind(t) = "utilities" ->
             [data EXCEPT !.utilities_included =
                 IF data.utilities_included # None THEN data.utilities_included
                 ELSE UtilitiesOf(t, data.utilities_included)]
      [] DivKind(t) = "min_stay" ->
             [data EXCEPT !.min_stay_months = MinStayOf(t, data.min_stay_months)]
      [] DivKind(t) = "availability" ->
             [data EXCEPT !.availability_status_text = Some(t)]
      [] OTHER -> data

\* Lines 345-380: one pass of the loop over potential_info_divs.
ScanDiv(data, t) ==
    CASE DivKind(t) = "utilities" ->
             [data EXCEPT !.utilities_included = UtilitiesOf(t, data.utilities_included)]
      [] DivKind(t) = "min_stay" ->
             [data EXCEPT !.min_stay_months = MinStayOf(t, data.min_stay_months)]
      [] DivKind(t) = "availability" ->
             [data EXCEPT !.availability_status_text = Some(t)]
      [] OTHER -> data

\* Lines 241, 252, 256: the three fields before the scan.
PanelDefaults ==
    [utilities_included |-> None, min_stay_months |-> None,
     availability_status_text |-> None]

\* The div texts the scan is run on.
PanelDivs ==
    { <<"Utilities:", " ", "Included">>,
      <<"Utilities:", " ", "Tenant pays">>,
      <<"utilities:", "tenant pays", "included">>,
      <<"Utilities:", " ", "x">>,
      <<"Included">>,
      <<"Minimum stay:", " ", "3", " ", "month">>,
      <<"Minimum stay:", " ", "x">>,
      <<"Available", " ", "x">>,
      <<"Utilities:", "Included", "Minimum stay:", "1", "month", "Booked">> }

RECURSIVE SeqsUpTo(_, _)
\* The sequences over S of length at most n.
SeqsUpTo(S, n) ==
    IF n = 0 THEN {<<>>}
    ELSE LET shorter == SeqsUpTo(S, n - 1)
         IN  shorter \cup {Append(q, x) : q \in {r \in shorter : Len(r) = n - 1}, x \in S}

InitPanel ==
    /\ potential_info_divs \in SeqsUpTo(PanelDivs, MaxDivs)
    /\ div_index = 1
    /\ panel_data = PanelDefaults

\* The panel loop is not running.
IdlePanel ==
    /\ potential_info_divs = <<>>
    /\ div_index = 1
    /\ panel_data = PanelDefaults

\* Lines 345-380: the loop handles the next div.
ScanNextDiv ==
    /\ div_index <= Len(potential_info_divs)
    /\ panel_data' = ScanDiv(panel_data, potential_info_divs[div_index])
    /\ div_index' = div_index + 1
    /\ UNCHANGED potential_info_divs

NextPanel == ScanNextDiv

\* The symbols a "Minimum stay:" text is made of, after its label.
MinStaySymbols == {"3", "0", " ", "Month", "days"}

InitMinStay ==
    /\ potential_info_divs \in
           {<< <<"Minimum stay:">> \o t >> : t \in SeqsUpTo(MinStaySymbols, MaxText)}
    /\ div_index = 1
    /\ panel_data = PanelDefaults


-----------------------------------------------------------------------------
(* parse_listing_details: the page and the field procedures *)

\* The procedures that may raise: one per try block, and within the shared try block
\* of lines 329-383 one per field it fills.
Procedures ==
    {"title", "property_id", "last_updated", "general_location", "landlord_tenure",
     "price", "utilities", "min_stay", "availability", "square_footage",
     "property_type", "bedrooms", "bathrooms", "closest_facilities",
     "description_space", "description_neighborhood", "amenities", "calendar",
     "reviews", "photos", "host_name"}

\* Lines 236-261: listing_data before any extraction.  scrape_time_detail is
\* time.time(); the model keeps the number of the visit for it.
DefaultListing(url, now) ==
    [ url                          |-> url,
      title                        |-> None,
      price_monthly_raw            |-> None,
      price_monthly_clean          |-> None,
      utilities_included           |-> None,
      bedrooms                     |-> None,
      bathrooms                    |-> None,
      description_space            |-> None,
      description_neighborhood     |-> None,
      amenities                    |-> <<>>,
      availability_calendar_raw    |-> <<>>,
      general_location_detail_page |-> None,
      host_name                    |-> None,
      property_type                |-> None,
      square_footage               |-> None,
      min_stay_months              |-> None,
      property_id                  |-> None,
      last_updated                 |-> None,
      landlord_tenure              |-> None,
      availability_status_text     |-> None,
      closest_facilities_listed    |-> <<>>,
      reviews_count                |-> 0,
      photos_urls                  |-> <<>>,
      scrape_time_detail           |-> now ]

\* The symbols of the texts that get sorted, in code-point order of their first
\* differing character (no symbol is the beginning of another).
Alphabetical ==
    << " ", "(See all 12)", "/a", "/b", "/small/", "/static", "1", "2", ":",
       "?crop", "Dishwasher", "Kitchen", "Parking", "TV", "Thumb", "Wifi",
       "data:image", "http://", "https://", "img.example" >>

Rank(x) == CHOOSE i \in 1..Len(Alphabetical) : Alphabetical[i] = x

RECURSIVE TextLeq(_, _)
\* a <= b for two str values, as Python compares them.
TextLeq(a, b) ==
    IF a = <<>> THEN TRUE
    ELSE IF b = <<>> THEN FALSE
    ELSE IF Head(a) = Head(b) THEN TextLeq(Tail(a), Tail(b))
    ELSE Rank(Head(a)) < Rank(Head(b))

RECURSIVE Sorted(_)
\* sorted(list(set(...))): the elements of S in increasing order.
Sorted(S) ==
    IF S = {} THEN <<>>
    ELSE LET least == CHOOSE x \in S : \A y \in S : TextLeq(x, y)
         IN  <<least>> \o Sorted(S \ {least})

\* Lines 273-284: the "Property ID" paragraph; without "Property ID:" in it the whole
\* text is kept.
ExtractPropertyId(tag) ==
    IF tag = None THEN None
    ELSE IF tag[1].colon THEN Some(<<tag[1].id>>)
    ELSE Some(<<"Property ID :", tag[1].id>>)

\* (mutant) a page without the landlord block gets the placeholder "N/A" as tenure.
ExtractTenureDefault(landlord) ==
    IF landlord = None \/ landlord[1].block = None THEN Some("N/A")
    ELSE LET b == landlord[1].block[1]
         IN  IF b.tenure_span # None THEN b.tenure_span
             ELSE IF b.tenure_text # None THEN b.tenure_text
             ELSE b.tenure_broad

\* Lines 304-324: the tenure span, else the regular expression on the block's text,
\* else the broader one.
ExtractTenure(landlord) ==
    IF landlord = None \/ landlord[1].block = None THEN None
    ELSE LET b == landlord[1].block[1]
         IN  IF b.tenure_span # None THEN b.tenure_span
             ELSE IF b.tenure_text # None THEN b.tenure_text
             ELSE b.tenure_broad

\* Lines 571-585: the h3 of the landlord block.
ExtractHostName(landlord) ==
    IF landlord = None \/ landlord[1].block = None THEN None
    ELSE landlord[1].block[1].host_h3

RECURSIVE ScanInfoDivs(_, _, _)
\* Lines 345-380: the loop over the divs; a procedure that raises ends it, and the
\* except of line 382 keeps what was written before.
ScanInfoDivs(data, divs, fails) ==
    IF divs = <<>> THEN data
    ELSE IF DivKind(Head(divs)) \in fails THEN data
    ELSE ScanInfoDivs(ScanDiv(data, Head(divs)), Tail(divs), fails)

\* Lines 328-383: the one try block that fills price, utilities, minimum stay and
\* availability status.
ExtractPanel(data, panel, fails) ==
    IF panel = None \/ "price" \in fails THEN data
    ELSE LET priced ==
                 IF panel[1].price = None THEN data
                 ELSE [data EXCEPT !.price_monthly_raw = panel[1].price,
                                   !.price_monthly_clean = clean_price(panel[1].price)]
         IN  IF panel[1].wrapper = None THEN priced
             ELSE LET scanned ==
                          ScanInfoDivs(
                              [utilities_included |-> priced.utilities_included,
                               min_stay_months |-> priced.min_stay_months,
                               availability_status_text |-> priced.availability_status_text],
                              panel[1].wrapper[1], fails)
                  IN  [priced EXCEPT
                          !.utilities_included = scanned.utilities_included,
                          !.min_stay_months = scanned.min_stay_months,
                          !.availability_status_text = scanned.availability_status_text]

\* Line 402: 'studio' in property_type.lower().
IsStudio(ptype) == ptype # None /\ Contains(LowerText(ptype[1]), <<"studio">>)

\* Lines 401-418: 0 for a studio (outside any try); else the count beside the
\* "Rooms & beds" heading; else, when the heading is there but no bedroom span is, the
\* count in the property type.
ExtractBedrooms(rooms, ptype, fails) ==
    IF IsStudio(ptype) THEN Some(0)
    ELSE IF "bedrooms" \in fails \/ rooms = None THEN None
    ELSE IF rooms[1].bedroom_span # None
         THEN DigitsBefore(rooms[1].bedroom_span[1], "bedroom")
    ELSE IF ptype # None /\ \E i \in 1..Len(ptype[1]) : Begins(Lower(ptype[1][i]), "bedroom")
         THEN DigitsBefore(ptype[1], "bedroom")
    ELSE None

\* re.search(r'(\d+\.?\d*)', t): the first number, with its decimals, or None.
FirstDecimal(t) ==
    IF RunStarts(t) = {} THEN None
    ELSE LET i == Min(RunStarts(t))
             j == RunEnd(t, i)
             k == IF j < Len(t) /\ t[j + 1] = "."
                  THEN IF j + 1 < Len(t) /\ t[j + 2] \in Digits
                       THEN RunEnd(t, j + 2) ELSE j + 1
                  ELSE j
         IN  ParseFloat(SubSeq(t, i, k))

\* Lines 420-433: the number in the bathroom text, or 1 for a "private bath".
ExtractBathrooms(rooms) ==
    IF rooms = None \/ rooms[1].bath_tag = None THEN None
    ELSE LET t == rooms[1].bath_tag[1]
         IN  IF FirstDecimal(t) # None THEN FirstDecimal(t)
             ELSE IF Contains(LowerText(t), <<"private bath">>) THEN Some(<<1, 0>>)
             ELSE None

RECURSIVE SelectSeq2(_, _)
\* The members of a sequence that are in `keep`, in order.
SelectSeq2(q, keep) ==
    IF q = <<>> THEN <<>>
    ELSE IF Head(q) \in keep THEN <<Head(q)>> \o SelectSeq2(Tail(q), keep)
    ELSE SelectSeq2(Tail(q), keep)

\* Lines 437-451: the facilities that have both a name and a distance.
ExtractFacilities(section) ==
    IF section = None THEN <<>>
    ELSE LET both == SelectSeq2(section[1],
                         {f \in Range(section[1]) : f.name # None /\ f.distance # None})
         IN  [i \in 1..Len(both) |->
                 [name |-> both[i].name[1], distance_text |-> both[i].distance[1]]]

\* Line 486-492: category_keywords, the ones among the words of the model.
category_keywords == {"kitchen", "parking"}

\* len() of a symbol, in characters.
CharLen(sym) ==
    CASE sym = "(See all 12)" -> 12
      [] sym = "Kitchen" -> 7
      [] sym = "Parking" -> 7
      [] sym = "Dishwasher" -> 10
      [] sym = "Wifi" -> 4
      [] sym = "TV" -> 2
      [] OTHER -> 1

RECURSIVE TextLen(_)
TextLen(t) == IF t = <<>> THEN 0 ELSE CharLen(Head(t)) + TextLen(Tail(t))

\* The symbols that re.sub(r'\(See all\s*\d+\s*\)', '', ...) removes.
SeeAll == {"(See all 12)"}

\* Line 497: re.sub(r'^\d+\s*', '', text): without a leading run of digits and the
\* whitespace after it.
DropLeadingNumber(t) ==
    IF t # <<>> /\ t[1] \in Digits
    THEN LET m == SkipSpace(t, RunEnd(t, 1) + 1) IN SubSeq(t, m, Len(t))
    ELSE t

\* Lines 496-497: the item without its "(See all N)" and without a leading number.
CleanAmenity(t) == Strip(DropLeadingNumber(Strip(RemoveChars(t, SeeAll))))

\* Line 495: the text is not empty, no category label, does not end in ":" and is
\* longer than 2 characters.
KeepAmenity(t) ==
    /\ t # <<>>
    /\ ~(Len(t) = 1 /\ Lower(t[1]) \in category_keywords)
    /\ t[Len(t)] # ":"
    /\ TextLen(t) > 2

\* Lines 475-500: the items (get_text(strip=True)) that pass the test of line 495,
\* cleaned, without the empty ones, deduplicated and sorted.
ExtractAmenities(section) ==
    IF section = None \/ section[1].container = None THEN <<>>
    ELSE LET texts == {Strip(item) : item \in Range(section[1].container[1])}
         IN  Sorted({CleanAmenity(t) : t \in {x \in texts : KeepAmenity(x)}}
                    \ {<<>>})

\* Lines 504-526: one entry for the month shown, if a day was read.
ExtractCalendar(section) ==
    IF section = None THEN <<>>
    ELSE LET month == IF section[1].month # None THEN section[1].month[1]
                      ELSE "Unknown Month"
             dates(days) ==
                 LET d == SelectSeq2(days, {x \in Range(days) : x.isdigit})
                 IN  [i \in 1..Len(d) |-> <<d[i].text, month>>]
             entry == [month_year |-> month,
                       available_dates |-> dates(section[1].enabled),
                       unavailable_dates |-> dates(section[1].disabled)]
         IN  IF entry.available_dates # <<>> \/ entry.unavailable_dates # <<>>
             THEN <<entry>> ELSE <<>>

\* Line 535: the text of the span that says there is no review yet.
NoReviewsMarker == <<"Be the first to leave a review">>

\* The places of a text where r'\((\d+)\s*review[s]?\)' matches: a "(", a run of
\* digits, optional whitespace, "review" or "reviews", and a ")".
ReviewMatches(t) ==
    {i \in 1..Len(t) :
        /\ t[i] = "("
        /\ i + 1 \in RunStarts(t)
        /\ LET m == SkipSpace(t, RunEnd(t, i + 1) + 1)
           IN  m < Len(t) /\ t[m] \in {"review", "reviews"} /\ t[m + 1] = ")"}

\* Lines 541-543: int(match.group(1)) of the leftmost match.
ReviewCountOf(t) ==
    LET i == Min(ReviewMatches(t)) IN DigitsToInt(SubSeq(t, i + 1, RunEnd(t, i + 1)))

\* (mutant) the review cards are counted before the "(N reviews)" text is looked for.
ExtractReviewsCountCardsFirst(section) ==
    IF section = None THEN 0
    ELSE LET spans == section[1].spans
             counts == {i \in 1..Len(spans) : ReviewMatches(spans[i]) # {}}
         IN  IF \E i \in 1..Len(spans) : spans[i] = NoReviewsMarker THEN 0
             ELSE IF section[1].cards > 0 THEN section[1].cards
             ELSE IF counts # {} THEN ReviewCountOf(spans[Min(counts)])
             ELSE 0

\* Lines 531-547: 0 with the "Be the first to leave a review" span; else the N of the
\* first span whose text matches "(N reviews)"; else, with no such span, the number
\* of review cards.
ExtractReviewsCount(section) ==
    IF section = None THEN 0
    ELSE LET spans == section[1].spans
             counts == {i \in 1..Len(spans) : ReviewMatches(spans[i]) # {}}
         IN  IF \E i \in 1..Len(spans) : spans[i] = NoReviewsMarker THEN 0
             ELSE IF counts # {} THEN ReviewCountOf(spans[Min(counts)])
             ELSE section[1].cards

\* 'http' in url, as the attribute selectors of line 560 test it.
HasHttp(url) == \E i \in 1..Len(url) : url[i] \in {"http://", "https://"}

\* Line 564: 'data:image' in src.
IsDataUri(url) == \E i \in 1..Len(url) : url[i] = "data:image"

\* Line 565: the thumbnail, small, tiny, placeholder and crop patterns, whatever the
\* case.
IsThumbnail(url) ==
    \E i \in 1..Len(url) : Lower(url[i]) \in {"thumb", "/small/", "?crop"}

\* Line 563: src or data-src - src unless it is missing or empty.
SrcOf(img) ==
    IF img.src # None /\ img.src[1] # <<>> THEN img.src ELSE img.data_src

\* Lines 551-567: of the gallery's images with "http" in src or data-src, the src (or
\* else data-src) that is not empty, no data URI and no thumbnail, deduplicated and
\* sorted.
ExtractPhotos(gallery) ==
    IF gallery = None THEN <<>>
    ELSE LET picked == {img \in Range(gallery[1]) :
                           \/ img.src # None /\ HasHttp(img.src[1])
                           \/ img.data_src # None /\ HasHttp(img.data_src[1])}
             kept == {img \in picked :
                         /\ SrcOf(img) # None /\ SrcOf(img)[1] # <<>>
                         /\ ~IsDataUri(SrcOf(img)[1])
                         /\ ~IsThumbnail(SrcOf(img)[1])}
         IN  Sorted({SrcOf(img)[1] : img \in kept})

\* The value a procedure gives unless it raises, in which case the field keeps `old`.
Guard(proc, fails, old, value) == IF proc \in fails THEN old ELSE value

\* Lines 233-594: the record parse_listing_details builds from a loaded page, when the
\* procedures in `fails` raise.
ExtractDetails(url, pg, fails, now) ==
    LET d0 == DefaultListing(url, now)
        ptype == Guard("property_type", fails, None, pg.ptype)
        d1 == [d0 EXCEPT
                 !.title = Guard("title", fails, None, pg.title),
                 !.property_id =
                     Guard("property_id", fails, None, ExtractPropertyId(pg.property_id)),
                 !.last_updated = Guard("last_updated", fails, None, pg.last_updated),
                 !.general_location_detail_page =
                     Guard("general_location", fails, None,
                           IF pg.overview = None THEN None ELSE pg.overview[1].loc),
                 !.landlord_tenure =
                     Guard("landlord_tenure", fails, None, ExtractTenure(pg.landlord))]
        d2 == ExtractPanel(d1, pg.panel, fails)
    IN  [d2 EXCEPT
            !.square_footage = Guard("square_footage", fails, None, pg.sqft),
            !.property_type = ptype,
            !.bedrooms = ExtractBedrooms(pg.rooms, ptype, fails),
            !.bathrooms = Guard("bathrooms", fails, None, ExtractBathrooms(pg.rooms)),
            !.closest_facilities_listed =
                Guard("closest_facilities", fails, <<>>, ExtractFacilities(pg.facilities)),
            !.description_space = Guard("description_space", fails, None, pg.space),
            !.description_neighborhood =
                Guard("description_neighborhood", fails, None, pg.neighborhood),
            !.amenities = Guard("amenities", fails, <<>>, ExtractAmenities(pg.amenities)),
            !.availability_calendar_raw =
                Guard("calendar", fails, <<>>, ExtractCalendar(pg.calendar)),
            !.reviews_count = Guard("reviews", fails, 0, ExtractReviewsCount(pg.reviews)),
            !.photos_urls = Guard("photos", fails, <<>>, ExtractPhotos(pg.photos)),
            !.host_name = Guard("host_name", fails, None, ExtractHostName(pg.landlord))]

-----------------------------------------------------------------------------
(* get_listing_urls: the data *)

\* config.FF_BASE_URL (config.py is not among the sources).
FF_BASE_URL == "https://www.furnishedfinder.com"

\* The href attributes a card's link may carry.  host = "" is a relative href.
Hrefs ==
    { [host |-> "", path |-> "/property/1"],
      [host |-> FF_BASE_URL, path |-> "/property/1"],
      [host |-> "", path |-> "/property/2"] }

\* urllib.parse.urljoin: a relative href is resolved against the base, an absolute
\* one is kept.
urljoin(base, href) ==
    IF href.host = "" THEN [host |-> base, path |-> href.path] ELSE href

Urls == {urljoin(FF_BASE_URL, h) : h \in Hrefs}

OptHrefs == {None} \cup {Some(h) : h \in Hrefs}

\* The price texts a card or a detail page may show.
PriceTexts ==
    { <<"$", "1", ",", "2", "5", "0", "/", "m", "o">>,
      <<"C", "a", "l", "l">> }

\* The price part of a card: the container div, the div.text-black inside it, its text.
PriceElems ==
    { [container |-> FALSE, text |-> None], [container |-> TRUE, text |-> None] }
    \cup { [container |-> TRUE, text |-> Some(t)] : t \in PriceTexts }

\* What BeautifulSoup finds in a card's outerHTML: each sub-element is there or not.
CardContents ==
    [ title : {None, Some("Sunny loft")},
      loc   : {None, Some("Milford, MA")},
      price : PriceElems,
      avail : {None, Some("Available now")} ]

\* The card contents the pagination model draws from: every sub-element there,
\* none of them there, and a price text that is no number.
SearchContents ==
    { [title |-> Some("Sunny loft"), loc |-> Some("Milford, MA"),
       price |-> [container |-> TRUE, text |-> Some(<<"$", "1", ",", "2", "5", "0", "/", "m", "o">>)],
       avail |-> Some("Available now")],
      [title |-> None, loc |-> None, price |-> [container |-> FALSE, text |-> None],
       avail |-> None],
      [title |-> Some("Sunny loft"), loc |-> None,
       price |-> [container |-> TRUE, text |-> Some(<<"C", "a", "l", "l">>)],
       avail |-> None] }

NoCard == [primary |-> None, fallback |-> None, content |-> None]

NoStop == [reason |-> "none", page |-> 0, card |-> 0]

\* (mutant) the fallback selector is tried before the primary one.
ResolveUrlFallbackFirst(primary, fallback) ==
    IF fallback # None THEN Some(urljoin(FF_BASE_URL, fallback[1]))
    ELSE IF primary # None THEN Some(urljoin(FF_BASE_URL, primary[1]))
    ELSE None

\* Lines 132-144: the primary selector, and the fallback only when the primary
\* raises NoSuchElementException; None when both do (the card is skipped).
ResolveUrl(primary, fallback) ==
    IF primary # None THEN Some(urljoin(FF_BASE_URL, primary[1]))
    ELSE IF fallback # None THEN Some(urljoin(FF_BASE_URL, fallback[1]))
    ELSE None

\* (mutant) the membership test of line 146 is lost: no card is skipped as seen.
AlreadySeenNever(url, seen) == FALSE

\* Line 146: whether the card is skipped as already seen.
AlreadySeen(url, seen) == url \in seen

\* (mutant) a card without a price container loses its availability text too.
CardSummaryCoupled(url, c, at) ==
    [ title                  |-> IF c.title # None THEN c.title ELSE Some("N/A"),
      location_card          |-> IF c.loc # None THEN c.loc ELSE Some("N/A"),
      url                    |-> url,
      price_raw_card         |-> IF c.price.container THEN c.price.text ELSE None,
      price_clean_card       |-> IF c.price.container /\ c.price.text # None
                                 THEN clean_price(c.price.text) ELSE None,
      availability_text_card |-> IF c.price.container THEN c.avail ELSE None,
      scrape_time_card       |-> at ]

\* Lines 153-187: the summary of one card.  scrape_time_card is time.time() at the
\* card's turn; the model keeps the card's place <<page, index>> for it.
CardSummary(url, c, at) ==
    [ title                  |-> IF c.title # None THEN c.title ELSE Some("N/A"),
      location_card          |-> IF c.loc # None THEN c.loc ELSE Some("N/A"),
      url                    |-> url,
      price_raw_card         |-> IF c.price.container THEN c.price.text ELSE None,
      price_clean_card       |-> IF c.price.container /\ c.price.text # None
                                 THEN clean_price(c.price.text) ELSE None,
      availability_text_card |-> c.avail,
      scrape_time_card       |-> at ]

\* _start_driver and _quit_driver (lines 76-85).
StartDriver(d) == IF d = "none" THEN "live" ELSE d
QuitDriver(d) == "none"

-----------------------------------------------------------------------------
(* get_listing_urls: the steps *)

InitSearch ==
    /\ pc = "idle"
    /\ driver = "none"
    /\ max_pages = 0
    /\ page = 0
    /\ requested = <<>>
    /\ ncards = 0
    /\ ci = 0
    /\ cur = NoCard
    /\ full_url = None
    /\ unique_urls = {}
    /\ all_listings_from_search = <<>>
    /\ stop = NoStop
    /\ returned = None
    /\ first = [u \in Urls |-> None]

\* Lines 92-104: the driver is started, the accumulators are emptied, the loop begins.
StartSearch ==
    /\ pc = "idle"
    /\ \E mp \in 0..MaxPages :
        /\ max_pages' = mp
        /\ pc' = IF mp >= 1 THEN "navigate" ELSE "quit"
    /\ driver' = StartDriver(driver)
    /\ all_listings_from_search' = <<>>
    /\ unique_urls' = {}
    /\ page' = 1
    /\ UNCHANGED <<requested, ncards, ci, cur, full_url, stop, returned, first>>

\* A break out of the pagination loop (lines 129, 194, 197).
Break(reason) ==
    /\ pc' = "quit"
    /\ stop' = [reason |-> reason, page |-> page, card |-> IF pc = "navigate" THEN 0 ELSE ci]

\* Lines 108-131: driver.get, the wait passes, find_elements returns n >= 1 cards.
PageLoaded ==
    /\ pc = "navigate"
    /\ requested' = Append(requested, page)
    /\ \E n \in 1..MaxCards : ncards' = n
    /\ ci' = 1
    /\ pc' = "card"
    /\ UNCHANGED <<driver, max_pages, page, cur, full_url, unique_urls,
                   all_listings_from_search, stop, returned, first>>

\* (mutant) a page without cards is skipped and the loop goes on with the next one.
PageEmptyContinues ==
    /\ pc = "navigate"
    /\ requested' = Append(requested, page)
    /\ stop' = [reason |-> "no_cards", page |-> page, card |-> 0]
    /\ IF page < max_pages
       THEN page' = page + 1 /\ pc' = "navigate"
       ELSE UNCHANGED page /\ pc' = "quit"
    /\ UNCHANGED <<driver, max_pages, ncards, ci, cur, full_url, unique_urls,
                   all_listings_from_search, returned, first>>

\* Lines 125-129: find_elements returns no card element.
PageEmpty ==
    /\ pc = "navigate"
    /\ requested' = Append(requested, page)
    /\ Break("no_cards")
    /\ UNCHANGED <<driver, max_pages, page, ncards, ci, cur, full_url, unique_urls,
                   all_listings_from_search, returned, first>>

\* (mutant) a timeout skips the page and the loop goes on with the next one.
PageTimeoutContinues ==
    /\ pc = "navigate"
    /\ requested' = Append(requested, page)
    /\ stop' = [reason |-> "timeout", page |-> page, card |-> 0]
    /\ IF page < max_pages
       THEN page' = page + 1 /\ pc' = "navigate"
       ELSE UNCHANGED page /\ pc' = "quit"
    /\ UNCHANGED <<driver, max_pages, ncards, ci, cur, full_url, unique_urls,
                   all_listings_from_search, returned, first>>

\* Lines 115-120, 191-194: the container or the first card does not show in 30 s.
PageTimeout ==
    /\ pc = "navigate"
    /\ requested' = Append(requested, page)
    /\ Break("timeout")
    /\ UNCHANGED <<driver, max_pages, page, ncards, ci, cur, full_url, unique_urls,
                   all_listings_from_search, returned, first>>

\* Lines 108, 195-197: driver.get or the wait raises a WebDriverException.
PageWebDriverError ==
    /\ pc = "navigate"
    /\ requested' = Append(requested, page)
    /\ Break("webdriver_error")
    /\ UNCHANGED <<driver, max_pages, page, ncards, ci, cur, full_url, unique_urls,
                   all_listings_from_search, returned, first>>

\* Lines 131-148: the card's link is resolved and looked up in the deduplication set.
ResolveCard ==
    /\ pc = "card"
    /\ ci <= ncards
    /\ \E p \in OptHrefs, f \in OptHrefs :
        LET url == ResolveUrl(p, f) IN
        /\ cur' = [primary |-> p, fallback |-> f, content |-> None]
        /\ full_url' = url
        /\ first' = IF url # None /\ first[url[1]] = None
                    THEN [first EXCEPT ![url[1]] = Some(<<page, ci>>)]
                    ELSE first
        /\ IF url = None \/ AlreadySeen(url[1], unique_urls)
           THEN /\ ci' = ci + 1
                /\ pc' = "card"
                /\ UNCHANGED unique_urls
           ELSE /\ unique_urls' = unique_urls \cup {url[1]}
                /\ pc' = "extract"
                /\ UNCHANGED ci
    /\ UNCHANGED <<driver, max_pages, page, requested, ncards,
                   all_listings_from_search, stop, returned>>

\* Lines 135-141, 195-197: the card element has gone stale; find_element or
\* get_attribute raises a WebDriverException other than NoSuchElementException.
ResolveWebDriverError ==
    /\ pc = "card"
    /\ ci <= ncards
    /\ Break("card_error")
    /\ UNCHANGED <<driver, max_pages, page, requested, ncards, ci, cur, full_url,
                   unique_urls, all_listings_from_search, returned, first>>

\* Lines 150-187: the card's outerHTML is parsed and its summary appended; the
\* card's content is one of `contents`.
ExtractCardFrom(contents) ==
    /\ pc = "extract"
    /\ \E c \in contents :
        /\ cur' = [cur EXCEPT !.content = Some(c)]
        /\ all_listings_from_search' =
               Append(all_listings_from_search, CardSummary(full_url[1], c, <<page, ci>>))
    /\ ci' = ci + 1
    /\ pc' = "card"
    /\ UNCHANGED <<driver, max_pages, page, requested, ncards, full_url, unique_urls,
                   stop, returned, first>>

ExtractCard == ExtractCardFrom(SearchContents)

\* Lines 151, 195-197: get_attribute('outerHTML') raises a WebDriverException.
ExtractWebDriverError ==
    /\ pc = "extract"
    /\ Break("card_error")
    /\ UNCHANGED <<driver, max_pages, page, requested, ncards, ci, cur, full_url,
                   unique_urls, all_listings_from_search, returned, first>>

\* (mutant) the loop variable advances by two.
EndPageSkips ==
    /\ pc = "card"
    /\ ci > ncards
    /\ IF page + 1 < max_pages
       THEN page' = page + 2 /\ pc' = "navigate"
       ELSE UNCHANGED page /\ pc' = "quit"
    /\ UNCHANGED <<driver, max_pages, requested, ncards, ci, cur, full_url, unique_urls,
                   all_listings_from_search, stop, returned, first>>

\* Lines 189, 199, 104: the page is done; the loop goes to the next page or ends.
EndPage ==
    /\ pc = "card"
    /\ ci > ncards
    /\ IF page < max_pages
       THEN page' = page + 1 /\ pc' = "navigate"
       ELSE UNCHANGED page /\ pc' = "quit"
    /\ UNCHANGED <<driver, max_pages, requested, ncards, ci, cur, full_url, unique_urls,
                   all_listings_from_search, stop, returned, first>>

\* Lines 201-203: the driver is quit and the list returned.
QuitSearch ==
    /\ pc = "quit"
    /\ driver' = QuitDriver(driver)
    /\ returned' = Some(all_listings_from_search)
    /\ pc' = "done"
    /\ UNCHANGED <<max_pages, page, requested, ncards, ci, cur, full_url, unique_urls,
                   all_listings_from_search, stop, first>>

NextSearch ==
    \/ StartSearch
    \/ PageLoaded
    \/ PageEmpty
    \/ PageTimeout
    \/ PageWebDriverError
    \/ ResolveCard
    \/ ResolveWebDriverError
    \/ ExtractCard
    \/ ExtractWebDriverError
    \/ EndPage
    \/ QuitSearch

-----------------------------------------------------------------------------
(* parse_listing_details and the detail loop of __main__: the data *)

\* The sections of a detail page that the procedures look for.
Sections ==
    {"title", "panel", "property_id", "last_updated", "overview", "landlord", "sqft",
     "ptype", "rooms", "facilities", "space", "neighborhood", "amenities", "calendar",
     "reviews", "photos"}

PhotoA == <<"https://", "img.example", "/a">>
PhotoB == <<"https://", "img.example", "/b">>

\* A page with every section, for the listing at `url`.
FullPage(url) ==
    [ title        |-> Some("Sunny loft"),
      panel        |-> Some([price |-> Some(<<"$", "1", ",", "2", "5", "0", "/", "m", "o">>),
                             wrapper |-> Some(<< <<"Utilities:", " ", "Included">>,
                                                 <<"Minimum stay:", " ", "3", " ", "month">>,
                                                 <<"Available", " ", "x">> >>)]),
      property_id  |-> Some([colon |-> TRUE, id |-> url.path]),
      last_updated |-> Some("05.07.2025"),
      overview     |-> Some([loc |-> Some("Apartment in Milford, Massachusetts")]),
      landlord     |-> Some([block |-> Some([tenure_span |-> Some("2 years, 3 months"),
                                             tenure_text |-> None,
                                             tenure_broad |-> None,
                                             host_h3 |-> Some("Dana")])]),
      sqft         |-> Some("850"),
      ptype        |-> Some(<<"Apartment">>),
      rooms        |-> Some([bedroom_span |-> Some(<<"2", " ", "bedrooms">>),
                             bath_tag |-> Some(<<"1", ".", "5", " ", "bathrooms">>)]),
      facilities   |-> Some(<< [name |-> Some("Milford Regional"),
                                distance |-> Some("1.2 miles")],
                               [name |-> Some("Unnamed"), distance |-> None] >>),
      space        |-> Some("Bright one-bedroom"),
      neighborhood |-> Some("Quiet street"),
      amenities    |-> Some([container |-> Some(<< <<"Kitchen">>, <<"Wifi">>,
                                                      <<"Dishwasher">>, <<"Wifi">> >>)]),
      calendar     |-> Some([month |-> Some("June 2025"),
                             enabled |-> << [text |-> "12", isdigit |-> TRUE] >>,
                             disabled |-> << [text |-> "13", isdigit |-> TRUE],
                                             [text |-> "", isdigit |-> FALSE] >>]),
      reviews      |-> Some([spans |-> << <<"(", "4", " ", "reviews", ")">> >>,
                             cards |-> 2]),
      photos       |-> Some(<< [src |-> Some(PhotoB), data_src |-> None],
                               [src |-> None, data_src |-> Some(PhotoA)],
                               [src |-> Some(PhotoB), data_src |-> None] >>) ]

\* The same page for a studio, and for a flat whose bedroom count is only in its
\* property type.
StudioPage(url) == [FullPage(url) EXCEPT !.ptype = Some(<<"Studio">>)]

TypedPage(url) ==
    [FullPage(url) EXCEPT
        !.ptype = Some(<<"2", " ", "Bedroom", " ", "Apartment">>),
        !.rooms = Some([bedroom_span |-> None,
                        bath_tag |-> Some(<<"Private bath">>)])]

\* The page without the sections in `absent`.
Without(pg, absent) ==
    [sec \in Sections |-> IF sec \in absent THEN None ELSE pg[sec]]

\* A page that provides only the title heading and the pricing panel with a price.
MinimalPage(url) ==
    [Without(FullPage(url), Sections \ {"title", "panel"}) EXCEPT
        !.panel = Some([price |-> FullPage(url).panel[1].price, wrapper |-> None])]

UpTo(S, n) == {T \in SUBSET S : Cardinality(T) <= n}

\* The pages the browser may be served for `url`: the full ones, each of them without
\* one of its sections, and the minimal one.
DetailPages(url) ==
    {Without(pg, absent) :
        pg \in {FullPage(url), StudioPage(url), TypedPage(url)},
        absent \in {{}} \cup {{sec} : sec \in Sections}}
    \cup {MinimalPage(url)}

\* Lines 215-220: both waits find their element.
Loaded(pg) == pg.title # None /\ pg.panel # None

\* The lists of summaries the detail loop may be given: get_listing_urls returns each
\* URL at most once.
CardLists ==
    {q \in SeqsUpTo(Urls, Cardinality(Urls)) : \A i, j \in 1..Len(q) : q[i] = q[j] => i = j}

NoPage == Without(FullPage(CHOOSE u \in Urls : TRUE), Sections)

-----------------------------------------------------------------------------
(* parse_listing_details and the detail loop of __main__: the steps *)

\* Line 618: the loop is entered over the summaries of the search.
InitDetail ==
    /\ dpc = "loop"
    /\ search_results_cards \in CardLists
    /\ listing_index = 1
    /\ load = "none"
    /\ detail_page = NoPage
    /\ failing = {}
    /\ full_listing_details = None
    /\ saved = <<>>
    /\ skipped = <<>>

\* The detail loop is not running.
IdleDetail ==
    /\ dpc = "idle"
    /\ search_results_cards = <<>>
    /\ listing_index = 1
    /\ load = "none"
    /\ detail_page = NoPage
    /\ failing = {}
    /\ full_listing_details = None
    /\ saved = <<>>
    /\ skipped = <<>>

Visiting == dpc = "loop" /\ listing_index <= Len(search_results_cards)

listing_url == search_results_cards[listing_index]

\* Line 402: for a studio the try block of the bedrooms is not entered, so nothing
\* raises in it.
CanRaise(pg, fails) ==
    "bedrooms" \in fails => ~IsStudio(Guard("property_type", fails, None, pg.ptype))

\* (mutant) a procedure that raised makes the call return None.
ParsedResultStrict(url, pg, fails, now) ==
    IF fails # {} THEN None ELSE Some(ExtractDetails(url, pg, fails, now))

\* Line 594: the record is returned whatever the procedures did.
ParsedResult(url, pg, fails, now) == Some(ExtractDetails(url, pg, fails, now))

\* Lines 209-231 and 233-594: the page loads, the fields are extracted, the driver is
\* quit and the record returned; the page is one of `pages`, the procedures that
\* raise one of `failsets`.
DetailParsedFrom(pages, failsets) ==
    /\ Visiting
    /\ \E pg \in pages, fails \in failsets :
        /\ Loaded(pg)
        /\ CanRaise(pg, fails)
        /\ detail_page' = pg
        /\ failing' = fails
        /\ full_listing_details' = ParsedResult(listing_url, pg, fails, listing_index)
    /\ load' = "ok"
    /\ driver' = QuitDriver(StartDriver(driver))
    /\ dpc' = "returned"
    /\ UNCHANGED <<search_results_cards, listing_index, saved, skipped>>

DetailParsed == DetailParsedFrom(DetailPages(listing_url), UpTo(Procedures, MaxFails))

\* Lines 224-227: a wait times out (always so when its element is not on the page); the
\* driver is quit and None returned.
DetailTimeout ==
    /\ Visiting
    /\ detail_page' \in DetailPages(listing_url)
    /\ failing' = {}
    /\ full_listing_details' = None
    /\ load' = "timeout"
    /\ driver' = QuitDriver(StartDriver(driver))
    /\ dpc' = "returned"
    /\ UNCHANGED <<search_results_cards, listing_index, saved, skipped>>

\* Lines 228-231: navigation raises a WebDriverException; the driver is quit and None
\* returned.
DetailWebDriverError ==
    /\ Visiting
    /\ detail_page' = NoPage
    /\ failing' = {}
    /\ full_listing_details' = None
    /\ load' = "webdriver_error"
    /\ driver' = QuitDriver(StartDriver(driver))
    /\ dpc' = "returned"
    /\ UNCHANGED <<search_results_cards, listing_index, saved, skipped>>

\* Line 233: reading page_source raises after the waits; nothing catches it, the
\* driver stays up and the program ends.
DetailPageSourceError ==
    /\ Visiting
    /\ detail_page' \in {pg \in DetailPages(listing_url) : Loaded(pg)}
    /\ failing' = {}
    /\ full_listing_details' = None
    /\ load' = "page_source_error"
    /\ driver' = StartDriver(driver)
    /\ dpc' = "crashed"
    /\ UNCHANGED <<search_results_cards, listing_index, saved, skipped>>

\* Line 625: dict.get(key, default) gives the value under the key when the dict has
\* the key, whatever the value, and the default only when it has not.
property_id_for_filename(details, i) ==
    IF "property_id" \in DOMAIN details
    THEN details.property_id
    ELSE Some(<<"listing_", ToString(i)>>)

\* Line 626: the f-string of the file's name; None is formatted as "None".
FileName(key) ==
    <<"listing_detail_">> \o (IF key = None THEN <<"None">> ELSE key[1]) \o <<".json">>

\* Lines 624-630: a record is written to the file named after it, opened with mode
\* 'w'; a None is logged; the loop goes on to the next summary.
HandleResult ==
    /\ dpc = "returned"
    /\ IF full_listing_details # None
       THEN /\ saved' = Append(saved,
                               [name |-> FileName(property_id_for_filename(
                                             full_listing_details[1], listing_index)),
                                index |-> listing_index,
                                url |-> full_listing_details[1].url,
                                property_id |-> full_listing_details[1].property_id])
            /\ UNCHANGED skipped
       ELSE /\ skipped' = Append(skipped, listing_url)
            /\ UNCHANGED saved
    /\ dpc' = "loop"
    /\ listing_index' = listing_index + 1
    /\ load' = "none"
    /\ detail_page' = NoPage
    /\ failing' = {}
    /\ full_listing_details' = None
    /\ UNCHANGED <<driver, search_results_cards>>

\* Line 634: the loop has visited every summary.
FinishDetails ==
    /\ dpc = "loop"
    /\ listing_index > Len(search_results_cards)
    /\ dpc' = "finished"
    /\ UNCHANGED <<driver, search_results_cards, listing_index, load, detail_page,
                   failing, full_listing_details, saved, skipped>>

NextDetail ==
    \/ DetailParsed
    \/ DetailTimeout
    \/ DetailWebDriverError
    \/ DetailPageSourceError
    \/ HandleResult
    \/ FinishDetails

\* get_listing_urls is not running.
IdleSearch == InitSearch

\* No function is being called on its own.
IdleCall ==
    /\ call = "idle"
    /\ argument = None
    /\ result = None

Init == InitSearch /\ IdlePanel /\ IdleDetail /\ IdleCall

Next == NextSearch /\ UNCHANGED <<panelVars, detailVars, callVars>>

Spec == Init /\ [][Next]_vars

\* A call that has begun goes on: the thread running get_listing_urls is not held
\* back, driver.get and the waits return or raise within their timeouts, and
\* time.sleep returns.  The cards of this call all have the same content: the content
\* of a card decides neither the next step nor the place of its summary in the list.
PlainContents ==
    { [title |-> Some("Sunny loft"), loc |-> Some("Milford, MA"),
       price |-> [container |-> FALSE, text |-> None], avail |-> None] }

ExtractPlainCard == ExtractCardFrom(PlainContents)

NextSearchPlain ==
    \/ StartSearch
    \/ PageLoaded
    \/ PageEmpty
    \/ PageTimeout
    \/ PageWebDriverError
    \/ ResolveCard
    \/ ResolveWebDriverError
    \/ ExtractPlainCard
    \/ ExtractWebDriverError
    \/ EndPage
    \/ QuitSearch

NextSpecLive == NextSearchPlain /\ UNCHANGED <<panelVars, detailVars, callVars>>

SpecLive == Init /\ [][NextSpecLive]_vars /\ WF_vars(NextSpecLive)

-----------------------------------------------------------------------------
(* The card loop at one card: a state get_listing_urls is in when it has just   *)
(* added a card's URL to the deduplication set, and the step that reads the    *)
(* card, over every combination of sub-elements.                               *)

InitCard ==
    /\ pc = "extract"
    /\ driver = "live"
    /\ max_pages \in 1..MaxPages
    /\ page = 1
    /\ requested = <<1>>
    /\ ncards \in 1..MaxCards
    /\ ci \in 1..ncards
    /\ \E p \in OptHrefs, f \in OptHrefs :
        /\ ResolveUrl(p, f) # None
        /\ cur = [primary |-> p, fallback |-> f, content |-> None]
        /\ full_url = ResolveUrl(p, f)
        /\ unique_urls = {ResolveUrl(p, f)[1]}
        /\ first = [u \in Urls |-> IF u = ResolveUrl(p, f)[1] THEN Some(<<1, ci>>) ELSE None]
    /\ all_listings_from_search = <<>>
    /\ stop = NoStop
    /\ returned = None

ExtractAnyCard == ExtractCardFrom(CardContents)

InitSpecCard == InitCard /\ IdlePanel /\ IdleDetail /\ IdleCall

NextSpecCard == ExtractAnyCard /\ UNCHANGED <<panelVars, detailVars, callVars>>

SpecCard == InitSpecCard /\ [][NextSpecCard]_vars

-----------------------------------------------------------------------------
(* The scan of the pricing panel on its own, and on one "Minimum stay:" text *)

NextSpecPanel == NextPanel /\ UNCHANGED <<searchVars, detailVars, callVars>>

InitSpecPanel == InitPanel /\ IdleSearch /\ IdleDetail /\ IdleCall

SpecPanel == InitSpecPanel /\ [][NextSpecPanel]_vars

InitSpecMinStay == InitMinStay /\ IdleSearch /\ IdleDetail /\ IdleCall

SpecMinStay == InitSpecMinStay /\ [][NextSpecPanel]_vars

-----------------------------------------------------------------------------
(* The detail loop, after get_listing_urls has returned *)

InitSpecDetail == InitDetail /\ IdleSearch /\ IdlePanel /\ IdleCall

NextSpecDetail == NextDetail /\ UNCHANGED <<loopVars, panelVars, callVars>>

SpecDetail == InitSpecDetail /\ [][NextSpecDetail]_vars

-----------------------------------------------------------------------------
(* One visit of the detail loop, over the amenities sections a page may have *)

\* The texts an element of the amenities list may hold.
AmenityTexts ==
    { <<"Kitchen">>, <<"Wifi">>, <<"TV">>, <<"Parking", ":">>,
      <<"Kitchen", " ", "(See all 12)">>, <<"2", " ", "Parking">>,
      <<"1", " ", "2", " ", "Wifi">>, <<"1", "2", " ", "TV">>,
      <<"Wifi", ":", "(See all 12)">>, <<" ", "Dishwasher", " ">>, <<"(See all 12)">> }

AmenityPages(url) ==
    {[FullPage(url) EXCEPT !.amenities = Some([container |-> Some(items)])] :
        items \in SeqsUpTo(AmenityTexts, MaxItems)}

DetailAmenities == DetailParsedFrom(AmenityPages(listing_url), {{}})

InitSpecAmenities == InitDetail /\ IdleSearch /\ IdlePanel /\ IdleCall

NextSpecAmenities == DetailAmenities /\ UNCHANGED <<loopVars, panelVars, callVars>>

SpecAmenities == InitSpecAmenities /\ [][NextSpecAmenities]_vars

-----------------------------------------------------------------------------
(* One visit of the detail loop, over the galleries a page may have *)

RelativeUrl == <<"/static", "/a">>
DataUri == <<"data:image">>
SmallUrl == <<"https://", "img.example", "/small/", "/a">>
ThumbUrl == <<"http://", "img.example", "/a", "Thumb">>
CropUrl == <<"https://", "img.example", "/b", "?crop">>

\* The img elements of a gallery: their src and data-src attributes.
Imgs ==
    { [src |-> Some(PhotoA), data_src |-> None],
      [src |-> None, data_src |-> Some(PhotoA)],
      [src |-> Some(PhotoB), data_src |-> Some(PhotoA)],
      [src |-> Some(RelativeUrl), data_src |-> Some(PhotoA)],
      [src |-> Some(RelativeUrl), data_src |-> None],
      [src |-> Some(DataUri), data_src |-> Some(PhotoB)],
      [src |-> Some(<<>>), data_src |-> Some(PhotoB)],
      [src |-> Some(SmallUrl), data_src |-> None],
      [src |-> Some(PhotoA), data_src |-> Some(ThumbUrl)],
      [src |-> None, data_src |-> Some(CropUrl)],
      [src |-> None, data_src |-> None] }

PhotoPages(url) ==
    {[FullPage(url) EXCEPT !.photos = Some(imgs)] : imgs \in SeqsUpTo(Imgs, MaxItems)}

DetailPhotos == DetailParsedFrom(PhotoPages(listing_url), {{}})

InitSpecPhotos == InitDetail /\ IdleSearch /\ IdlePanel /\ IdleCall

NextSpecPhotos == DetailPhotos /\ UNCHANGED <<loopVars, panelVars, callVars>>

SpecPhotos == InitSpecPhotos /\ [][NextSpecPhotos]_vars

-----------------------------------------------------------------------------
(* One visit of the detail loop, over the reviews sections a page may have *)

\* The texts a span of the reviews section may hold.
ReviewSpans ==
    { NoReviewsMarker,
      <<"(", "4", " ", "reviews", ")">>,
      <<"(", "1", " ", "review", ")">>,
      <<"(", "1", "2", "reviews", ")">>,
      <<"(", "4", " ", "Reviews", ")">>,
      <<"4", " ", "reviews">>,
      <<"Great stay">> }

ReviewPages(url) ==
    {Without(FullPage(url), {"reviews"})} \cup
    {[FullPage(url) EXCEPT !.reviews = Some([spans |-> spans, cards |-> cards])] :
        spans \in SeqsUpTo(ReviewSpans, MaxItems), cards \in 0..MaxCards}

DetailReviews == DetailParsedFrom(ReviewPages(listing_url), {{}})

InitSpecReviews == InitDetail /\ IdleSearch /\ IdlePanel /\ IdleCall

NextSpecReviews == DetailReviews /\ UNCHANGED <<loopVars, panelVars, callVars>>

SpecReviews == InitSpecReviews /\ [][NextSpecReviews]_vars

-----------------------------------------------------------------------------
(* One call of clean_price *)

\* The characters a price text is made of.
PriceSymbols == {"$", ",", "/", "m", "1", "0", "9", ".", "e", " ", "x"}

\* The price texts clean_price is called with: every short text, and some longer
\* ones.
PriceInputs ==
    {None}
    \cup {Some(t) : t \in SeqsUpTo(PriceSymbols, MaxPrice)}
    \cup {Some(<<"$", "1", ",", "2", "5", "0", "/", "m", "o">>),
          Some(<<"$", "1", ",", "2", "5", "0", " ", "p", "e", "r", " ",
                 "m", "o", "n", "t", "h">>),
          Some(<<"1", "e", "3", "0", "9">>),
          Some(<<"1", "e", "1", "6">>),
          Some(<<".", "0", "0", "0", "0", "1">>)}

InitPrice ==
    /\ call = "pending"
    /\ argument \in PriceInputs
    /\ result = None

\* utils.py lines 4-13.
CallCleanPrice ==
    /\ call = "pending"
    /\ result' = clean_price(argument)
    /\ call' = "done"
    /\ UNCHANGED argument

InitSpecPrice == InitPrice /\ IdleSearch /\ IdlePanel /\ IdleDetail

NextSpecPrice == CallCleanPrice /\ UNCHANGED <<searchVars, panelVars, detailVars>>

SpecPrice == InitSpecPrice /\ [][NextSpecPrice]_vars

-----------------------------------------------------------------------------
(* feature_engineer.py: one call of parse_tenure_to_months *)

\* A cell of the data frame: NaN, a text or a number.
NaN == [type |-> "NaN", text |-> <<>>, number |-> 0]
Str(t) == [type |-> "str", text |-> t, number |-> 0]
Num(n) == [type |-> "number", text |-> <<>>, number |-> n]

\* The N of the leftmost "N <word>", or 0 without one.
CountOf(t, word) ==
    IF DigitsBefore(t, word) = None THEN 0 ELSE DigitsBefore(t, word)[1]

\* (mutant) the months are looked for only when no years were found.
parse_tenure_years_first(tenure_str) ==
    IF tenure_str.type # "str" THEN None
    ELSE IF DigitsBefore(tenure_str.text, "year") # None
         THEN Some(CountOf(tenure_str.text, "year") * 12)
    ELSE Some(CountOf(tenure_str.text, "month"))

\* Lines 47-63 (numpy.nan is None here).
parse_tenure_to_months(tenure_str) ==
    IF tenure_str.type # "str" THEN None
    ELSE Some(CountOf(tenure_str.text, "year") * 12 + CountOf(tenure_str.text, "month"))

\* The symbols of a tenure text.
TenureSymbols == {"1", "2", " ", ",", "year", "Years", "month", "months"}

TenureInputs ==
    {NaN, Num(0), Num(27)}
    \cup {Str(t) : t \in SeqsUpTo(TenureSymbols, MaxTenure)}
    \cup {Str(<<"2", " ", "years", ",", " ", "3", " ", "months">>),
          Str(<<"6", " ", "months">>),
          Str(<<"3", " ", "years">>),
          Str(<<"3", " ", "months", ",", " ", "1", " ", "Year">>)}

InitTenure ==
    /\ call = "pending"
    /\ argument \in TenureInputs
    /\ result = None

\* Line 65: the function is applied to a cell of the landlord_tenure column.
CallParseTenure ==
    /\ call = "pending"
    /\ result' = parse_tenure_to_months(argument)
    /\ call' = "done"
    /\ UNCHANGED argument

InitSpecTenure == InitTenure /\ IdleSearch /\ IdlePanel /\ IdleDetail

NextSpecTenure == CallParseTenure /\ UNCHANGED <<searchVars, panelVars, detailVars>>

SpecTenure == InitSpecTenure /\ [][NextSpecTenure]_vars

-----------------------------------------------------------------------------
(* feature_engineer.py: one call of categorize_min_stay *)

\* (mutant) the boundaries 3 and 6 belong to the upper category.
categorize_min_stay_exclusive(months) ==
    IF months.type = "NaN" THEN "Unknown"
    ELSE IF months.number < 3 THEN "Short-Term"
    ELSE IF 3 <= months.number /\ months.number < 6 THEN "Mid-Term"
    ELSE "Long-Term"

\* Lines 119-127.
categorize_min_stay(months) ==
    IF months.type = "NaN" THEN "Unknown"
    ELSE IF months.number <= 3 THEN "Short-Term"
    ELSE IF 3 < months.number /\ months.number <= 6 THEN "Mid-Term"
    ELSE "Long-Term"

\* The cells of the min_stay_months column.
MinStayInputs == {NaN} \cup {Num(n) : n \in 0..MaxMonths}

InitCategory ==
    /\ call = "pending"
    /\ argument \in MinStayInputs
    /\ result = None

\* Line 129: the function is applied to a cell of the min_stay_months column.
CallCategorize ==
    /\ call = "pending"
    /\ result' = Some(categorize_min_stay(argument))
    /\ call' = "done"
    /\ UNCHANGED argument

InitSpecCategory == InitCategory /\ IdleSearch /\ IdlePanel /\ IdleDetail

NextSpecCategory == CallCategorize /\ UNCHANGED <<searchVars, panelVars, detailVars>>

SpecCategory == InitSpecCategory /\ [][NextSpecCategory]_vars

-----------------------------------------------------------------------------
(* feature_engineer.py: the ratios and the presence flags of one row *)

\* pd.to_numeric(..., errors='coerce') on a cell: a number stays, a text of digits
\* (after an optional "-") is its number, anything else is NaN.
to_numeric(cell) ==
    IF cell.type = "str"
    THEN LET t == cell.text
             neg == t # <<>> /\ t[1] = "-"
             digs == IF neg THEN Tail(t) ELSE t
         IN  IF digs # <<>> /\ \A i \in 1..Len(digs) : digs[i] \in Digits
             THEN Num(IF neg THEN 0 - DigitsToInt(digs) ELSE DigitsToInt(digs))
             ELSE NaN
    ELSE cell

RECURSIVE Gcd(_, _)
Gcd(a, b) == IF b = 0 THEN a ELSE Gcd(b, a % b)

\* a / b for b > 0 and a >= 0, as the fraction <<p, q>> in lowest terms.
Quotient(a, b) == <<a \div Gcd(a, b), b \div Gcd(a, b)>>

\* (mutant) a missing field counts as 1.
price_per_or_price(price, field) ==
    LET x == to_numeric(field)
    IN  IF x.type = "NaN" /\ price.type = "number" THEN Some(Quotient(price.number, 1))
        ELSE IF x.type = "number" /\ x.number > 0 /\ price.type = "number"
        THEN Some(Quotient(price.number, x.number))
        ELSE None

\* Lines 84-89 and 93-98: np.where(field.notna() & (field > 0), price / field, nan)
\* after to_numeric; NaN is None here, and a NaN price gives a NaN ratio.
price_per(price, field) ==
    LET x == to_numeric(field)
    IN  IF x.type = "number" /\ x.number > 0 /\ price.type = "number"
        THEN Some(Quotient(price.number, x.number))
        ELSE None

RatioRows ==
    [ price_monthly_clean : {NaN, Num(0), Num(1250), Num(1800)},
      square_footage : {NaN, Num(-1), Num(0), Num(850), Str(<<"8", "5", "0">>),
                        Str(<<"0">>), Str(<<"-", "1">>), Str(<<"x">>)},
      bedrooms : {NaN, Num(0), Num(1), Num(2), Num(3), Str(<<"x">>)} ]

InitRatios ==
    /\ call = "pending"
    /\ argument \in RatioRows
    /\ result = None

\* Lines 84-98.
ComputeRatios ==
    /\ call = "pending"
    /\ result' = Some([price_per_sq_ft |->
                           price_per(argument.price_monthly_clean, argument.square_footage),
                       price_per_bedroom |->
                           price_per(argument.price_monthly_clean, argument.bedrooms)])
    /\ call' = "done"
    /\ UNCHANGED argument

InitSpecRatios == InitRatios /\ IdleSearch /\ IdlePanel /\ IdleDetail

NextSpecRatios == ComputeRatios /\ UNCHANGED <<searchVars, panelVars, detailVars>>

SpecRatios == InitSpecRatios /\ [][NextSpecRatios]_vars

\* Lines 101 and 104: notna() & (astype(str).str.strip() != '').
has_text(cell) == cell.type # "NaN" /\ Strip(cell.text) # <<>>

\* Line 107: notna() & (astype(str).str.strip().str.lower() != 'n/a').
has_host_name(cell) == cell.type # "NaN" /\ LowerText(Strip(cell.text)) # <<"n/a">>

\* Lines 110 and 113: count > 0 (False for NaN).
has_any(cell) == cell.type = "number" /\ cell.number > 0

\* The texts pd.read_csv leaves in a cell: the empty field and the fields "n/a" and
\* "N/A" are read as NaN.
CellTexts ==
    {Str(t) : t \in SeqsUpTo({" ", "Dana", "n/a", "N/A"}, 2) \ {<<>>, <<"n/a">>, <<"N/A">>}}

FlagRows ==
    [ description_space : {NaN, Str(<<" ">>), Str(<<"Bright">>), Str(<<" ", "Bright">>)},
      description_neighborhood : {NaN, Str(<<" ", " ">>), Str(<<"Quiet">>)},
      host_name : {NaN} \cup CellTexts,
      photos_count : {NaN, Num(0), Num(1)},
      reviews_count : {NaN, Num(0), Num(2)} ]

InitFlags ==
    /\ call = "pending"
    /\ argument \in FlagRows
    /\ result = None

\* Lines 100-113.
ComputeFlags ==
    /\ call = "pending"
    /\ result' = Some([has_description_space |-> has_text(argument.description_space),
                       has_description_neighborhood |->
                           has_text(argument.description_neighborhood),
                       has_host_name |-> has_host_name(argument.host_name),
                       has_photos |-> has_any(argument.photos_count),
                       has_reviews |-> has_any(argument.reviews_count)])
    /\ call' = "done"
    /\ UNCHANGED argument

InitSpecFlags == InitFlags /\ IdleSearch /\ IdlePanel /\ IdleDetail

NextSpecFlags == ComputeFlags /\ UNCHANGED <<searchVars, panelVars, detailVars>>

SpecFlags == InitSpecFlags /\ [][NextSpecFlags]_vars

-----------------------------------------------------------------------------
(* The two batch stages: process_ff_data.py and feature_engineer.py, each run *)
(* once on an input path and an output path                                    *)

\* What a file of the input directory may be: a file whose name is not
\* listing_detail_*.json, a listing file holding a JSON object, one that is no JSON,
\* and one whose JSON is not an object.
FileKinds == {"other", "record", "undecodable", "not_object"}

\* The output path as the stage finds it: whether its directory is there, and whether
\* opening the file for writing raises an IOError.
OutputPaths == [dir_exists : BOOLEAN, open_fails : BOOLEAN]

\* process_ff_data.py lines 57-119: the files are read in turn; a listing file that
\* decodes gives a row, one that does not is logged and passed over.
RECURSIVE ReadFiles(_)
ReadFiles(files) ==
    IF files = <<>> THEN [rows |-> 0, log |-> <<>>]
    ELSE LET rest == ReadFiles(Tail(files))
             kind == Head(files)
         IN  [rows |-> rest.rows + (IF kind = "record" THEN 1 ELSE 0),
              log  |-> (IF kind = "undecodable" THEN <<"decode_error">>
                        ELSE IF kind = "not_object" THEN <<"unexpected_error">>
                        ELSE <<>>) \o rest.log]

Outcome(raised, log, made_dir, written) ==
    [raised |-> raised, log |-> log, made_dir |-> made_dir, written |-> written]

\* process_ff_data.py lines 22-136.  input_dir is None when the path does not exist,
\* else the files of the directory.  The output directory is made (lines 52-54) before
\* os.listdir(input_dir) at line 57, which is in no try block.
process_and_save_to_csv(input_dir, output) ==
    LET made == ~output.dir_exists
    IN  IF input_dir = None
        THEN Outcome(Some("FileNotFoundError"), <<"start">>, made, None)
        ELSE LET read == ReadFiles(input_dir[1])
             IN  IF read.rows = 0
                 THEN Outcome(None, <<"start">> \o read.log \o <<"no_valid_files">>,
                              made, None)
                 ELSE IF output.open_fails
                 THEN Outcome(None, <<"start">> \o read.log \o <<"write_error">>,
                              made, None)
                 ELSE Outcome(None, <<"start">> \o read.log \o <<"saved">>,
                              made, Some(read.rows))

\* feature_engineer.py lines 22-145.  input_csv is None when the path does not exist,
\* else the lines of the file; an empty file makes pd.read_csv raise, which line 32
\* catches.  The output directory is made at lines 134-136, after the features.
engineer_features(input_csv, output) ==
    IF input_csv = None
    THEN Outcome(None, <<"start", "input_not_found">>, FALSE, None)
    ELSE IF input_csv[1] = <<>>
    THEN Outcome(None, <<"start", "load_error">>, FALSE, None)
    ELSE IF output.open_fails
    THEN Outcome(None, <<"start", "loaded", "write_error">>, ~output.dir_exists, None)
    ELSE Outcome(None, <<"start", "loaded", "saved">>, ~output.dir_exists,
                 Some(Len(input_csv[1]) - 1))

\* The input directories of the first stage.
InputDirs == {None} \cup {Some(q) : q \in SeqsUpTo(FileKinds, MaxFiles)}

\* The input files of the second stage: missing, empty, or a header line and rows.
InputCsvs ==
    {None, Some(<<>>)}
    \cup {Some(<<"header">> \o q) : q \in SeqsUpTo({"row"}, MaxFiles) \ {<<>>}}

InitBatch ==
    /\ call = "pending"
    /\ argument \in [stage : {"process"}, input : InputDirs, output : OutputPaths]
                    \cup [stage : {"engineer"}, input : InputCsvs, output : OutputPaths]
    /\ result = None

\* process_ff_data.py line 142.
RunProcess ==
    /\ call = "pending"
    /\ argument.stage = "process"
    /\ result' = Some(process_and_save_to_csv(argument.input, argument.output))
    /\ call' = "done"
    /\ UNCHANGED argument

\* feature_engineer.py line 151.
RunEngineer ==
    /\ call = "pending"
    /\ argument.stage = "engineer"
    /\ result' = Some(engineer_features(argument.input, argument.output))
    /\ call' = "done"
    /\ UNCHANGED argument

NextBatch ==
    \/ RunProcess
    \/ RunEngineer

InitSpecBatch == InitBatch /\ IdleSearch /\ IdlePanel /\ IdleDetail

NextSpecBatch == NextBatch /\ UNCHANGED <<searchVars, panelVars, detailVars>>

SpecBatch == InitSpecBatch /\ [][NextSpecBatch]_vars

-----------------------------------------------------------------------------
(* Claims on get_listing_urls *)

Failures == {"timeout", "webdriver_error", "card_error"}

\* The summaries of `out` that carry URL u.
Carrying(out, u) == {i \in 1..Len(out) : out[i].url = u}

\* The call was aborted while the card at place `at` was being read.
AbortedAt(at) == stop.reason = "card_error" /\ <<stop.page, stop.card>> = at

\* C1 (as amended): when get_listing_urls has returned, no URL is in the returned list
\* twice; a URL no handled card carried is not in it; and every URL that a handled card
\* carried is in it exactly once, with the summary built from the first card (page
\* order, then card order) that carried it, unless a WebDriver error aborted the call
\* while that first card was being read, in which case the URL is not in the list.
C1_EachUrlOnceFromFirstCard ==
    pc = "done" =>
        LET out == returned[1] IN
        \A u \in Urls :
            /\ Cardinality(Carrying(out, u)) <= 1
            /\ first[u] = None => Carrying(out, u) = {}
            /\ first[u] # None /\ AbortedAt(first[u][1]) => Carrying(out, u) = {}
            /\ first[u] # None /\ ~AbortedAt(first[u][1]) =>
                   \E i \in 1..Len(out) :
                       /\ Carrying(out, u) = {i}
                       /\ out[i].scrape_time_card = first[u][1]

\* C1 as stated: every URL resolved from a handled card is in the returned list
\* exactly once, with the summary of the first card that carried it.
C1_Original ==
    pc = "done" =>
        \A u \in Urls :
            first[u] # None =>
                \E i \in 1..Len(returned[1]) :
                    /\ Carrying(returned[1], u) = {i}
                    /\ returned[1][i].scrape_time_card = first[u][1]

\* Two pages overlap by URL: the call returned two summaries, and the card read last,
\* on page 2, carried a URL first carried by a card of page 1.
C1_Witness ==
    /\ pc = "done"
    /\ stop = NoStop
    /\ page = 2
    /\ Len(returned[1]) = 2
    /\ ResolveUrl(cur.primary, cur.fallback) # None
    /\ first[ResolveUrl(cur.primary, cur.fallback)[1]][1][1] = 1

\* C2: a page-load timeout or a WebDriver error on page k ends the pagination loop: the
\* pages requested are exactly 1..k and stay so, no summary collected so far is ever
\* dropped, and the list returned is the list collected.
C2_FailureAbortsAndKeeps ==
    /\ [][pc # "idle" => IsPrefix(all_listings_from_search, all_listings_from_search')]_vars
    /\ [](stop.reason \in Failures =>
            /\ pc \in {"quit", "done"}
            /\ requested = [i \in 1..stop.page |-> i])
    /\ [](pc = "done" => returned = Some(all_listings_from_search))

\* A timeout on page 2 of 3 after page 1 gave a summary: the call returned that summary.
C2_Witness ==
    /\ pc = "done"
    /\ stop.reason = "timeout"
    /\ stop.page = 2
    /\ max_pages > 2
    /\ Len(returned[1]) >= 1

ResolveStep == pc = "card" /\ ci <= ncards /\ pc' \in {"card", "extract"}

\* C4: a card for which neither selector finds a link emits no summary and adds nothing
\* to the deduplication set, and the loop goes on with the next card of the page; the
\* primary link decides the URL whenever there is one, the fallback only otherwise.
C4_UnresolvedCardSkipped ==
    [][ResolveStep =>
        /\ (cur'.primary = None /\ cur'.fallback = None) =>
               /\ full_url' = None
               /\ all_listings_from_search' = all_listings_from_search
               /\ unique_urls' = unique_urls
               /\ pc' = "card" /\ ci' = ci + 1 /\ ncards' = ncards /\ page' = page
               /\ stop' = stop
        /\ cur'.primary # None =>
               full_url' = Some(urljoin(FF_BASE_URL, cur'.primary[1]))
        /\ (cur'.primary = None /\ cur'.fallback # None) =>
               full_url' = Some(urljoin(FF_BASE_URL, cur'.fallback[1]))]_vars

\* The first card of a page had no link and the second card of the same page gave a
\* summary.
C4_Witness ==
    /\ pc = "card"
    /\ ci = 3
    /\ Len(all_listings_from_search) = 1
    /\ all_listings_from_search[1].scrape_time_card = <<1, 2>>
    /\ unique_urls = {all_listings_from_search[1].url}
    /\ \A u \in Urls : first[u] # None => first[u][1] = <<1, 2>>

\* The step that reads a card and appends its summary.
ExtractStep == pc = "extract" /\ pc' = "card"

\* C5 (as amended): a card with a resolved, not yet seen URL gets a summary whichever
\* sub-elements are missing, and each field depends on its own sub-element only: a
\* missing title or location gives the placeholder "N/A", a missing price element gives
\* a null price_raw_card and price_clean_card, a missing availability element gives a
\* null availability_text_card.
C5_FieldsIndependent ==
    [][ExtractStep =>
        LET c == cur'.content[1]
            s == all_listings_from_search'[Len(all_listings_from_search')]
        IN  /\ Len(all_listings_from_search') = Len(all_listings_from_search) + 1
            /\ s.url = full_url[1]
            /\ s.title = (IF c.title = None THEN Some("N/A") ELSE c.title)
            /\ s.location_card = (IF c.loc = None THEN Some("N/A") ELSE c.loc)
            /\ s.price_raw_card = c.price.text
            /\ s.price_clean_card = clean_price(c.price.text)
            /\ s.availability_text_card = c.avail]_vars

\* C5 as stated: each missing sub-element gives null for its own field.
C5_Original ==
    [][ExtractStep =>
        LET c == cur'.content[1]
            s == all_listings_from_search'[Len(all_listings_from_search')]
        IN  /\ c.title = None => s.title = None
            /\ c.loc = None => s.location_card = None
            /\ c.price.text = None => s.price_raw_card = None /\ s.price_clean_card = None
            /\ c.avail = None => s.availability_text_card = None]_vars

\* A card with a title and an availability text but neither location nor price has
\* been read.
C5_Witness ==
    /\ pc = "card"
    /\ Len(all_listings_from_search) = 1
    /\ cur.content # None
    /\ cur.content[1].title # None /\ cur.content[1].avail # None
    /\ cur.content[1].loc = None /\ ~cur.content[1].price.container
    /\ all_listings_from_search[1].title = cur.content[1].title
    /\ all_listings_from_search[1].location_card = Some("N/A")

-----------------------------------------------------------------------------
(* Claims on the scan of the pricing panel *)

\* The divs the loop has handled so far.
Scanned == 1..(div_index - 1)

IsUtilitiesDiv(t) == \E i \in 1..Len(t) : Lower(t[i]) = "utilities:"
HasIncluded(t) == \E i \in 1..Len(t) : Lower(t[i]) \in UTILITIES_INCLUDED_KEYWORDS
HasExcluded(t) == \E i \in 1..Len(t) : Lower(t[i]) \in UTILITIES_EXCLUDED_KEYWORDS

\* The scanned "Utilities:" divs that hold a keyword of either set.
Deciding ==
    {i \in Scanned : /\ IsUtilitiesDiv(potential_info_divs[i])
                     /\ \/ HasIncluded(potential_info_divs[i])
                        \/ HasExcluded(potential_info_divs[i])}

\* C9 (as amended): utilities_included is unknown (None), never false, as long as no
\* scanned "Utilities:" div holds a keyword of either set; otherwise it is decided by
\* the last scanned "Utilities:" div that holds one (a later such div overrides an
\* earlier one), and within a div an inclusion keyword outranks an exclusion keyword.
C9_LastDecidingDivWins ==
    panel_data.utilities_included =
        IF Deciding = {} THEN None
        ELSE Some(HasIncluded(potential_info_divs[Max(Deciding)]))

\* C9 as stated: once a div has set utilities_included, no later div changes it, and
\* the field is unknown while no scanned div holds a keyword.
C9_Original ==
    /\ [][panel_data.utilities_included # None =>
             panel_data'.utilities_included = panel_data.utilities_included]_vars
    /\ [](Deciding = {} => panel_data.utilities_included = None)

\* Two "Utilities:" divs were scanned, the first with an inclusion keyword and the
\* second with an exclusion keyword only: the field ends false.
C9_Witness ==
    /\ div_index > Len(potential_info_divs)
    /\ Cardinality(Deciding) = 2
    /\ HasIncluded(potential_info_divs[Min(Deciding)])
    /\ ~HasIncluded(potential_info_divs[Max(Deciding)])
    /\ panel_data.utilities_included = Some(FALSE)

\* The digit runs of t that are followed, after optional blanks, by "month" in any case.
MonthRuns(t) ==
    {i \in RunStarts(t) :
        \E m \in (RunEnd(t, i) + 1)..Len(t) :
            /\ Lower(t[m]) = "month"
            /\ \A k \in (RunEnd(t, i) + 1)..(m - 1) : t[k] = " "}

IntAt(t, i) == DigitsToInt(SubSeq(t, i, RunEnd(t, i)))

\* C10: for a "Minimum stay:" text, min_stay_months is the N of the first "N month" in
\* it; otherwise 1 when the text holds "30 days"; otherwise the first integer in it;
\* otherwise null.
C10_MinStayCascade ==
    div_index = 2 =>
        LET t == potential_info_divs[1] IN
        panel_data.min_stay_months =
            IF MonthRuns(t) # {} THEN Some(IntAt(t, Min(MonthRuns(t))))
            ELSE IF \E i \in 1..(Len(t) - 3) :
                        /\ t[i] = "3" /\ t[i + 1] = "0" /\ t[i + 2] = " "
                        /\ Lower(t[i + 3]) = "days"
                 THEN Some(1)
            ELSE IF RunStarts(t) # {} THEN Some(IntAt(t, Min(RunStarts(t))))
            ELSE None

\* "Minimum stay: 30 days3Month" was parsed: the field is 3, from the "N month" rule,
\* neither 1 from the "30 days" rule nor the first integer 30.
C10_Witness ==
    /\ div_index = 2
    /\ potential_info_divs[1] = <<"Minimum stay:", "3", "0", " ", "days", "3", "Month">>
    /\ panel_data.min_stay_months = Some(3)

-----------------------------------------------------------------------------
(* Claims on parse_listing_details and the detail loop *)

\* The fields of the record that a procedure fills.
FieldsOf(proc) ==
    CASE proc = "price" -> {"price_monthly_raw", "price_monthly_clean"}
      [] proc = "utilities" -> {"utilities_included"}
      [] proc = "min_stay" -> {"min_stay_months"}
      [] proc = "availability" -> {"availability_status_text"}
      [] proc = "general_location" -> {"general_location_detail_page"}
      [] proc = "closest_facilities" -> {"closest_facilities_listed"}
      [] proc = "calendar" -> {"availability_calendar_raw"}
      [] proc = "reviews" -> {"reviews_count"}
      [] proc = "photos" -> {"photos_urls"}
      [] OTHER -> {proc}

Fields == DOMAIN DefaultListing(FF_BASE_URL, 0)

\* parse_listing_details has returned from a page that loaded.
Parsed == dpc = "returned" /\ load = "ok"

\* C6: once the page has loaded, a failure raised inside the extraction of one field
\* resolves that field to its null/default and never prevents the extraction of
\* another field: for every procedure f that fails and every field g of another
\* procedure, the value of g is the one the call gives when f does not fail.
C6_Original ==
    Parsed =>
        \A f \in failing :
            LET got == full_listing_details[1]
                other == ExtractDetails(listing_url, detail_page, failing \ {f},
                                        listing_index)
            IN  /\ \A g \in FieldsOf(f) :
                       got[g] = DefaultListing(listing_url, listing_index)[g]
                /\ \A g \in Fields \ FieldsOf(f) : got[g] = other[g]

\* The step of __main__ that handles what parse_listing_details returned.
HandleStep == dpc = "returned" /\ dpc' # "returned"

\* C7: parse_listing_details returns None exactly when a wait for the title heading
\* or the pricing panel timed out or navigation raised a WebDriver error - always
\* so when one of the two is not on the page; a procedure that raised never makes
\* the result None; and the loop logs a None result and goes on with the next URL.
C7_NoneOnlyOnLoadFailure ==
    /\ [](dpc = "returned" =>
            /\ full_listing_details = None <=> load \in {"timeout", "webdriver_error"}
            /\ (load # "webdriver_error" /\ ~Loaded(detail_page)) => load = "timeout"
            /\ (load = "ok" /\ failing # {}) => full_listing_details # None)
    /\ [][(HandleStep /\ full_listing_details = None) =>
            /\ skipped' = Append(skipped, listing_url)
            /\ saved' = saved
            /\ listing_index' = listing_index + 1
            /\ dpc' = "loop"]_vars

\* A record came back although a procedure raised, in a visit that followed one
\* whose None result was logged.
C7_Witness ==
    /\ Parsed
    /\ listing_index = 2
    /\ skipped = <<search_results_cards[1]>>
    /\ failing # {}
    /\ full_listing_details # None

\* The record of a page that provides only the title and a price.
MinimalRecord(url, pg, now) ==
    [DefaultListing(url, now) EXCEPT
        !.title = pg.title,
        !.price_monthly_raw = pg.panel[1].price,
        !.price_monthly_clean = Some(<<1250, 0>>)]

\* C8: for a page that provides only the title heading and the pricing panel with a
\* price, the record returned has title, price_monthly_raw and price_monthly_clean
\* populated (with url and scrape_time_detail, which are always set) and every
\* other field at its null/default; and a page without the "About the landlord"
\* section gives landlord_tenure = None.
C8_MinimalRecord ==
    (Parsed /\ failing = {}) =>
        /\ detail_page = MinimalPage(listing_url) =>
               full_listing_details =
                   Some(MinimalRecord(listing_url, detail_page, listing_index))
        /\ detail_page.landlord = None => full_listing_details[1].landlord_tenure = None

\* C8 as the specification states it: only title and price_monthly_clean are
\* populated.
C8_Original ==
    (Parsed /\ failing = {}) =>
        /\ detail_page = MinimalPage(listing_url) =>
               full_listing_details =
                   Some([MinimalRecord(listing_url, detail_page, listing_index)
                            EXCEPT !.price_monthly_raw = None])
        /\ detail_page.landlord = None => full_listing_details[1].landlord_tenure = None

C8_Witness ==
    /\ Parsed
    /\ failing = {}
    /\ detail_page = MinimalPage(listing_url)
    /\ full_listing_details # None
    /\ full_listing_details[1].title # None

\* The bedroom count read beside the "Rooms & beds" heading of a page, or None.
CountBesideHeading(pg) ==
    IF pg.rooms = None \/ pg.rooms[1].bedroom_span = None THEN None
    ELSE DigitsBefore(pg.rooms[1].bedroom_span[1], "bedroom")

\* The integer before "bedroom" in a property type, or None.
CountInType(ptype) ==
    IF ptype = None THEN None ELSE DigitsBefore(ptype[1], "bedroom")

\* C11: bedrooms is 0 whenever property_type contains "studio"; otherwise it is the
\* count read beside the "Rooms & beds" heading, and whenever that count is absent
\* (heading missing or no count beside it) it is the integer before "bedroom" in
\* property_type, and null only when that also yields nothing.
C11_Original ==
    (Parsed /\ failing = {}) =>
        LET got == full_listing_details[1]
        IN  got.bedrooms =
                IF IsStudio(got.property_type) THEN Some(0)
                ELSE IF CountBesideHeading(detail_page) # None
                     THEN CountBesideHeading(detail_page)
                ELSE CountInType(got.property_type)

\* A list of texts is in increasing order and holds no text twice.
StrictlySorted(q) ==
    \A i \in 1..(Len(q) - 1) : TextLeq(q[i], q[i + 1]) /\ q[i] # q[i + 1]

\* The items of a section in reverse order.
Reversed(section) ==
    LET items == section[1].container[1]
    IN  Some([container |-> Some([i \in 1..Len(items) |-> items[Len(items) + 1 - i]])])

\* C12: the amenities of every extracted record are sorted and free of duplicates;
\* none of them is a category label, ends in ":", is shorter than 3 characters, or
\* still carries a "(See all N)" or a leading number; and the same items in another
\* order give the same list.
C12_Original ==
    Parsed =>
        LET amenities == full_listing_details[1].amenities
        IN  /\ StrictlySorted(amenities)
            /\ \A i \in 1..Len(amenities) :
                   LET item == amenities[i]
                   IN  /\ ~(Len(item) = 1 /\ Lower(item[1]) \in category_keywords)
                       /\ item[Len(item)] # ":"
                       /\ TextLen(item) >= 3
                       /\ \A k \in 1..Len(item) : item[k] \notin SeeAll
                       /\ item[1] \notin Digits
            /\ ExtractAmenities(Reversed(detail_page.amenities)) = amenities

\* C13: every URL in photos_urls of an extracted record holds an http(s) scheme, is
\* no data URI and matches none of the thumbnail patterns, whichever of src and
\* data-src its image carries; the list is sorted and has no duplicates.
C13_Original ==
    Parsed =>
        LET photos_urls == full_listing_details[1].photos_urls
        IN  /\ StrictlySorted(photos_urls)
            /\ \A i \in 1..Len(photos_urls) :
                   /\ HasHttp(photos_urls[i])
                   /\ ~IsDataUri(photos_urls[i])
                   /\ ~IsThumbnail(photos_urls[i])

\* The spans of the reviews section of the page, and what is among them.
ReviewTexts == IF detail_page.reviews = None THEN <<>> ELSE detail_page.reviews[1].spans
HasMarker == \E i \in 1..Len(ReviewTexts) : ReviewTexts[i] = NoReviewsMarker
CountSpans == {i \in 1..Len(ReviewTexts) : ReviewMatches(ReviewTexts[i]) # {}}

\* C14: reviews_count is 0 when the "no reviews yet" marker is present, whatever else
\* is; else the N of the "(N review(s))" text; else, only when there is no such text,
\* the number of review cards; and 0 when the section is absent or nothing applies.
C14_ReviewsCascade ==
    Parsed =>
        LET reviews_count == full_listing_details[1].reviews_count
        IN  /\ detail_page.reviews = None => reviews_count = 0
            /\ HasMarker => reviews_count = 0
            /\ (~HasMarker /\ CountSpans # {}) =>
                   reviews_count = ReviewCountOf(ReviewTexts[Min(CountSpans)])
            /\ (detail_page.reviews # None /\ ~HasMarker /\ CountSpans = {}) =>
                   reviews_count = detail_page.reviews[1].cards

\* A section with a "(N reviews)" text of 12 and a different, positive number of
\* cards gave 12.
C14_Witness ==
    /\ Parsed
    /\ ~HasMarker
    /\ CountSpans # {}
    /\ detail_page.reviews[1].cards = 2
    /\ full_listing_details[1].reviews_count = 12

-----------------------------------------------------------------------------
(* Claims on utils.py and feature_engineer.py *)

\* The text holds a numeral.
HasNumeral(text) == text # None /\ \E i \in 1..Len(text[1]) : text[1][i] \in Digits

\* C15: for every price text that holds a numeral clean_price returns a number
\* ("$1,250/mo" gives 1250), and for every input without a numeral, the empty text
\* and None included, it returns None.
C15_Original ==
    call = "done" =>
        /\ HasNumeral(argument) => result # None
        /\ argument = Some(<<"$", "1", ",", "2", "5", "0", "/", "m", "o">>) =>
               result = Some(<<1250, 0>>)
        /\ ~HasNumeral(argument) => result = None

\* C16: for every input on which clean_price returns a number v, clean_price of the
\* textual form of v returns v again.
C16_Original ==
    (call = "done" /\ result # None) =>
        clean_price(Some(FloatStr(result[1]))) = result

\* The digits that stand, blanks apart, right before the first <word> or <word>s of
\* a text that has one after a number.
NumbersBefore(t, words) ==
    {i \in RunStarts(t) :
        LET m == SkipSpace(t, RunEnd(t, i) + 1)
        IN  m <= Len(t) /\ Lower(t[m]) \in words}

ComponentOf(t, words) ==
    IF NumbersBefore(t, words) = {} THEN 0
    ELSE LET i == Min(NumbersBefore(t, words))
         IN  DigitsToInt(SubSeq(t, i, RunEnd(t, i)))

\* C17: parse_tenure_to_months returns years*12 + months, with years the N of an
\* optional "N year(s)" and months the N of an optional "N month(s)", each found on
\* its own and whatever the case, a missing one counting 0; it returns null if and
\* only if the input is absent or not text.
C17_TenureMonths ==
    call = "done" =>
        /\ result = None <=> argument.type # "str"
        /\ argument.type = "str" =>
               result = Some(ComponentOf(argument.text, {"year", "years"}) * 12
                             + ComponentOf(argument.text, {"month", "months"}))
        /\ argument = Str(<<"2", " ", "years", ",", " ", "3", " ", "months">>) =>
               result = Some(27)
        /\ argument = Str(<<"6", " ", "months">>) => result = Some(6)
        /\ argument = Str(<<"3", " ", "years">>) => result = Some(36)

\* A text with both components, the months first, gave their sum.
C17_Witness ==
    /\ call = "done"
    /\ argument = Str(<<"3", " ", "months", ",", " ", "1", " ", "Year">>)
    /\ result = Some(15)

\* C18: min_stay_category is a total function of min_stay_months: null gives
\* "Unknown", a value <= 3 "Short-Term", a value in (3, 6] "Mid-Term", a value > 6
\* "Long-Term"; the boundaries 3 and 6 belong to the lower category.
C18_MinStayCategory ==
    call = "done" =>
        /\ result # None
        /\ result[1] \in {"Unknown", "Short-Term", "Mid-Term", "Long-Term"}
        /\ result[1] = "Unknown" <=> argument.type = "NaN"
        /\ result[1] = "Short-Term" <=> (argument.type = "number" /\ argument.number <= 3)
        /\ result[1] = "Mid-Term" <=>
               (argument.type = "number" /\ argument.number > 3 /\ argument.number <= 6)
        /\ result[1] = "Long-Term" <=> (argument.type = "number" /\ argument.number > 6)
        /\ argument = Num(3) => result = Some("Short-Term")
        /\ argument = Num(6) => result = Some("Mid-Term")

\* The boundary 6 was put in the lower category.
C18_Witness ==
    /\ call = "done"
    /\ argument = Num(6)
    /\ result = Some("Mid-Term")

\* The field of a row is a positive number, as it stands or as a text.
Positive(cell) == to_numeric(cell).type = "number" /\ to_numeric(cell).number > 0

\* The ratio is the price divided by the field.
IsRatio(r, price, cell) ==
    r # None /\ r[1][2] > 0 /\ r[1][1] * to_numeric(cell).number = price.number * r[1][2]

\* C19: price_per_bedroom is null whenever bedrooms is 0 or null, for every price,
\* and price_per_sq_ft is null whenever square_footage is null, zero, negative or
\* not a number; a ratio is the price divided by the field, and is computed only
\* when the field is a positive number.
C19_RatiosGuarded ==
    call = "done" =>
        LET row == argument
            out == result[1]
        IN  /\ ~Positive(row.bedrooms) => out.price_per_bedroom = None
            /\ ~Positive(row.square_footage) => out.price_per_sq_ft = None
            /\ out.price_per_bedroom # None =>
                   IsRatio(out.price_per_bedroom, row.price_monthly_clean, row.bedrooms)
            /\ out.price_per_sq_ft # None =>
                   IsRatio(out.price_per_sq_ft, row.price_monthly_clean, row.square_footage)
            /\ (Positive(row.bedrooms) /\ row.price_monthly_clean.type = "number") =>
                   out.price_per_bedroom # None
            /\ (Positive(row.square_footage) /\ row.price_monthly_clean.type = "number") =>
                   out.price_per_sq_ft # None

\* A row with a price, no bedrooms and no usable square footage got two nulls; the
\* ratios of other rows were computed.
C19_Witness ==
    /\ call = "done"
    /\ argument.price_monthly_clean = Num(1250)
    /\ argument.bedrooms = Num(0)
    /\ argument.square_footage = Str(<<"x">>)
    /\ result = Some([price_per_sq_ft |-> None, price_per_bedroom |-> None])

\* The cell holds a text that is not blank once trimmed.
NonBlank(cell) == cell.type = "str" /\ \E i \in 1..Len(cell.text) : cell.text[i] # " "

\* C20: has_description_space, has_description_neighborhood and has_host_name are
\* true if and only if the field is non-null and non-blank after trimming,
\* has_host_name being false as well when the host name is "n/a" whatever the case;
\* has_photos and has_reviews are true if and only if the count is greater than 0.
C20_Original ==
    call = "done" =>
        LET row == argument
            out == result[1]
        IN  /\ out.has_description_space <=> NonBlank(row.description_space)
            /\ out.has_description_neighborhood <=> NonBlank(row.description_neighborhood)
            /\ out.has_host_name <=>
                   (NonBlank(row.host_name)
                    /\ LowerText(Strip(row.host_name.text)) # <<"n/a">>)
            /\ out.has_photos <=>
                   (row.photos_count.type = "number" /\ row.photos_count.number > 0)
            /\ out.has_reviews <=>
                   (row.reviews_count.type = "number" /\ row.reviews_count.number > 0)

-----------------------------------------------------------------------------
(* Claims on the batch stages *)

\* C21 (as stated): a batch stage run on an input path that does not exist does not
\* raise, logs a message saying so, and writes no output file.
C21_Original ==
    (call = "done" /\ argument.input = None)
        => /\ result[1].raised = None
           /\ Len(result[1].log) > 1
           /\ result[1].written = None

-----------------------------------------------------------------------------
(* Claims on the order of get_listing_urls *)

\* Place a comes before place b: page order, then card order.
Before(a, b) == a[1] < b[1] \/ (a[1] = b[1] /\ a[2] < b[2])

\* The pages requested so far are 1, 2, ..., n with n <= max_pages, and the list
\* returned is in page order, then card order.
PagesInOrder ==
    /\ \A i \in 1..Len(requested) : requested[i] = i
    /\ Len(requested) <= max_pages
    /\ returned # None =>
           \A i, j \in 1..Len(returned[1]) :
               i < j => Before(returned[1][i].scrape_time_card,
                               returned[1][j].scrape_time_card)

\* A page is requested only at the start of the call or when every card of the page
\* before it has been handled.
RequestAfterCards ==
    Len(requested') > Len(requested)
        => /\ requested' = Append(requested, Len(requested) + 1)
           /\ requested = <<>> \/ (pc = "navigate" /\ ci > ncards)

\* C22: get_listing_urls requests the search pages in increasing order from page 1,
\* each one only after every card of the page before it has been handled, requests at
\* most max_pages pages, and every call that has begun ends, returning the summaries
\* collected in page order, then card order.
C22_PagesInOrderAndTerminates ==
    /\ []PagesInOrder
    /\ [][RequestAfterCards]_vars
    /\ (pc # "idle") ~> (pc = "done" /\ returned = Some(all_listings_from_search))

\* A call has returned after requesting three pages, with summaries of two pages.
C22_Witness ==
    /\ pc = "done"
    /\ Len(requested) = 3
    /\ \E i, j \in 1..Len(returned[1]) :
           returned[1][i].scrape_time_card[1] < returned[1][j].scrape_time_card[1]

-----------------------------------------------------------------------------
(* Claims on the browser driver *)

\* get_listing_urls is between its first and its last line.
InSearch == pc \in {"navigate", "card", "extract", "quit"}

\* C23 (as stated): while a call of get_listing_urls runs the scraper holds one live
\* driver, and whenever no call is running (none has begun, or the last one has
\* completed, by a return or by an exception) the driver has been quit and the
\* scraper holds none.
C23_Original ==
    /\ InSearch => driver = "live"
    /\ ~InSearch => driver = "none"

-----------------------------------------------------------------------------
(* Claims on the files of the detail loop *)

\* The name the record of visit i is to be filed under: its property_id when one was
\* extracted, listing_<i> when none was.
KeyedName(property_id, i) ==
    FileName(IF property_id # None THEN property_id ELSE Some(<<"listing_", ToString(i)>>))

\* C24 (as stated): every record the detail loop got is written, to the file keyed by
\* its property_id when one was extracted and by listing_<i> when none was, and no two
\* writes of a run go to the same file, so no record is overwritten by a later one.
C24_Original ==
    /\ dpc \in {"loop", "finished"} => Len(saved) + Len(skipped) = listing_index - 1
    /\ \A k \in 1..Len(saved) : saved[k].name = KeyedName(saved[k].property_id, saved[k].index)
    /\ \A k, l \in 1..Len(saved) : saved[k].name = saved[l].name => k = l

====
